---- MODULE Spec2Model ----
(***************************************************************************)
(* A model of the choir ETL (src/etl): the builders that turn the wide RAW *)
(* sheet into dim_chorister, dim_chorister_assignment, dim_song,           *)
(* fact_attendance and fact_song_time, and the mart builders that join     *)
(* them.                                                                   *)
(*                                                                         *)
(* Text is modelled as what Python's str is: a sequence of characters.  A  *)
(* character is a one-element TLA+ string; a character outside ASCII is    *)
(* written by its code point ("u043C" is CYRILLIC SMALL LETTER EM).        *)
(* None (a cell a short row does not have) is the value None.              *)
(***************************************************************************)
EXTENDS Integers, Sequences, FiniteSets, TLC

VARIABLES
    pc,                          \* position of the run between the builders
    values,                      \* RAW: <<header, row, ...>> (main.py raw_values)
    dim_chorister,               \* data rows of dim_chorister
    chorister_id_by_key,         \* (full_name, joined_date) -> chorister_id
    normalized_to_chorister_id,  \* normalized full_name -> chorister_id
    dim_chorister_assignment,    \* data rows of dim_chorister_assignment
    dim_song,                    \* data rows of dim_song
    song_ids_ordered,            \* song ids in source order
    fact_attendance,             \* outcome of build_fact_attendance_from_raw
    fact_song_time,              \* data rows of fact_song_time
    mart_in,                     \* the five tables as read_table returns them
    mart_attendance,             \* outcome of build_mart_attendance
    mart_song_rehearsal,         \* rows of mart_song_rehearsal
    mart_chorister_song,         \* rows of mart_chorister_song
    vp_in,                       \* arguments of _get_voice_part_for_date
    vp_out,                      \* its result
    clock,                       \* datetime.now(timezone.utc), in seconds
    db,                          \* the DB spreadsheet: tab title -> content
    start_db,                    \* db as it was when the run started
    run,                         \* main's status, and how many runs are done
    reader,                      \* what a reader of a tab got, if one has read
    name_in,                     \* full names given to _normalize_name
    name_out                     \* the keys it returned for them

vars == <<pc, values, dim_chorister, chorister_id_by_key,
          normalized_to_chorister_id, dim_chorister_assignment, dim_song,
          song_ids_ordered, fact_attendance, fact_song_time, mart_in,
          mart_attendance, mart_song_rehearsal, mart_chorister_song,
          vp_in, vp_out, clock, db, start_db, run, reader, name_in,
          name_out>>

(***************************************************************************)
(* Characters and strings                                                  *)
(***************************************************************************)

\* The printable ASCII characters in code point order, from 32 (space).
AsciiChars ==
    << " ", "!", "\"", "#", "$", "%", "&", "'", "(", ")", "*", "+", ",", "-",
       ".", "/", "0", "1", "2", "3", "4", "5", "6", "7", "8", "9", ":", ";",
       "<", "=", ">", "?", "@", "A", "B", "C", "D", "E", "F", "G", "H", "I",
       "J", "K", "L", "M", "N", "O", "P", "Q", "R", "S", "T", "U", "V", "W",
       "X", "Y", "Z", "[", "\\", "]", "^", "_", "u0060", "a", "b", "c", "d", "e",
       "f", "g", "h", "i", "j", "k", "l", "m", "n", "o", "p", "q", "r", "s",
       "t", "u", "v", "w", "x", "y", "z", "{", "|", "}", "~" >>

\* The Cyrillic letters of the override table's names: <<upper, lower, code
\* point of the lower-case letter>>; the upper-case letter is 32 below.
CyrillicLetters ==
    << <<"u0410", "u0430", 1072>>, <<"u0412", "u0432", 1074>>,
       <<"u0414", "u0434", 1076>>, <<"u0415", "u0435", 1077>>,
       <<"u0418", "u0438", 1080>>, <<"u041A", "u043A", 1082>>,
       <<"u041B", "u043B", 1083>>, <<"u041C", "u043C", 1084>>,
       <<"u041D", "u043D", 1085>>, <<"u041E", "u043E", 1086>>,
       <<"u041F", "u043F", 1087>>, <<"u0420", "u0440", 1088>>,
       <<"u0422", "u0442", 1090>>, <<"u0423", "u0443", 1091>>,
       <<"u0427", "u0447", 1095>>, <<"u042F", "u044F", 1103>> >>

Range(f) == {f[i] : i \in DOMAIN f}

Chars ==
    Range(AsciiChars) \cup {"\t"}
        \cup {CyrillicLetters[i][1] : i \in DOMAIN CyrillicLetters}
        \cup {CyrillicLetters[i][2] : i \in DOMAIN CyrillicLetters}

\* ord(c)
OrdTable ==
    [c \in Chars |->
        IF c = "\t" THEN 9
        ELSE IF c \in Range(AsciiChars)
        THEN 31 + (CHOOSE i \in DOMAIN AsciiChars : AsciiChars[i] = c)
        ELSE LET e == CyrillicLetters[CHOOSE i \in DOMAIN CyrillicLetters :
                                         c \in {CyrillicLetters[i][1],
                                                CyrillicLetters[i][2]}]
             IN IF c = e[2] THEN e[3] ELSE e[3] - 32]

Ord(c) == OrdTable[c]

IsDigit(c) == Ord(c) >= 48 /\ Ord(c) <= 57
DigitVal(c) == Ord(c) - 48
IsUpperAscii(c) == Ord(c) >= 65 /\ Ord(c) <= 90
IsLowerAscii(c) == Ord(c) >= 97 /\ Ord(c) <= 122
IsCyrUpper(c) == Ord(c) >= 1040 /\ Ord(c) <= 1071
IsCyrLower(c) == Ord(c) >= 1072 /\ Ord(c) <= 1103
\* str.isspace(), and \s of the re module, on the characters of Chars
IsSpace(c) == c \in {" ", "\t"}
\* \w of the re module (Unicode): letters, digits and the underscore
IsWord(c) ==
    IsDigit(c) \/ IsUpperAscii(c) \/ IsLowerAscii(c) \/ IsCyrUpper(c)
        \/ IsCyrLower(c) \/ c = "_"

\* str.lower() on one character
LowerChar(c) ==
    IF IsUpperAscii(c) THEN AsciiChars[Ord(c) + 32 - 31]
    ELSE IF IsCyrUpper(c)
    THEN CyrillicLetters[CHOOSE i \in DOMAIN CyrillicLetters :
                            CyrillicLetters[i][1] = c][2]
    ELSE c

\* str.lower()
Lower(s) == [i \in DOMAIN s |-> LowerChar(s[i])]

\* s[n:] and s[:n]
Drop(s, n) == IF n >= Len(s) THEN <<>> ELSE SubSeq(s, n + 1, Len(s))
Take(s, n) == IF n >= Len(s) THEN s ELSE SubSeq(s, 1, n)

\* str.lstrip(chars): the number of leading characters of s in cs
RECURSIVE LeadCount(_, _)
LeadCount(s, cs) ==
    IF s # <<>> /\ s[1] \in cs THEN 1 + LeadCount(Tail(s), cs) ELSE 0

RECURSIVE TrailCount(_, _)
TrailCount(s, cs) ==
    IF s # <<>> /\ s[Len(s)] \in cs
    THEN 1 + TrailCount(SubSeq(s, 1, Len(s) - 1), cs) ELSE 0

LStrip(s, cs) == Drop(s, LeadCount(s, cs))
RStrip(s, cs) == Take(s, Len(s) - TrailCount(s, cs))

Spaces == {c \in Chars : IsSpace(c)}

\* str.strip()
Strip(s) == RStrip(LStrip(s, Spaces), Spaces)

\* str.startswith(p)
StartsWith(s, p) == Len(s) >= Len(p) /\ SubSeq(s, 1, Len(p)) = p

\* s < t and s <= t of two str: by code point, a proper prefix first
RECURSIVE StrLt(_, _)
StrLt(s, t) ==
    IF t = <<>> THEN FALSE
    ELSE IF s = <<>> THEN TRUE
    ELSE IF s[1] = t[1] THEN StrLt(Tail(s), Tail(t))
    ELSE Ord(s[1]) < Ord(t[1])

StrLe(s, t) == s = t \/ StrLt(s, t)

\* str(n) of a natural number
RECURSIVE NatStr(_)
NatStr(n) ==
    IF n < 10 THEN <<AsciiChars[n + 17]>>
    ELSE Append(NatStr(n \div 10), AsciiChars[(n % 10) + 17])

\* int(s) of a non-empty run of digits
RECURSIVE DigitsVal(_)
DigitsVal(s) ==
    IF s = <<>> THEN 0
    ELSE 10 * DigitsVal(SubSeq(s, 1, Len(s) - 1)) + DigitVal(s[Len(s)])

\* The value None of a missing cell; it is no string (no character is "None").
None == <<"None">>

\* dict: a function on the set of its keys; {} is the empty function
EmptyDict == <<>>
Get(d, k, default) == IF k \in DOMAIN d THEN d[k] ELSE default
Put(d, k, v) == [x \in DOMAIN d \cup {k} |-> IF x = k THEN v ELSE d[x]]

\* The place of the first character of s that is in cs
FindFirst(s, cs) ==
    CHOOSE k \in DOMAIN s : s[k] \in cs /\ \A j \in 1..(k - 1) : s[j] \notin cs

\* The parts of s between the occurrences of a character of cs (str.split
\* for a one-character separator); SplitAt cuts at the occurrence at i
RECURSIVE SplitOn(_, _), SplitAt(_, _, _)
SplitOn(s, cs) ==
    IF \E i \in DOMAIN s : s[i] \in cs THEN SplitAt(s, FindFirst(s, cs), cs)
    ELSE <<s>>

SplitAt(s, i, cs) == <<Take(s, i - 1)>> \o SplitOn(Drop(s, i), cs)

AllDigits(s) == \A i \in DOMAIN s : IsDigit(s[i])

(***************************************************************************)
(* Dates: _normalize_date_to_iso (fact_attendance.py and marts.py hold the *)
(* same function)                                                          *)
(***************************************************************************)

IsLeap(y) == (y % 4 = 0 /\ y % 100 # 0) \/ y % 400 = 0

DaysInMonth(y, m) ==
    IF m = 2 THEN (IF IsLeap(y) THEN 29 ELSE 28)
    ELSE IF m \in {4, 6, 9, 11} THEN 30 ELSE 31

\* datetime(y, m, d) does not raise ValueError
ValidDate(y, m, d) ==
    /\ y >= 1 /\ y <= 9999
    /\ m >= 1 /\ m <= 12
    /\ d >= 1 /\ d <= DaysInMonth(y, m)

\* "%02d"
Pad2(n) == IF n < 10 THEN <<"0">> \o NatStr(n) ELSE NatStr(n)

\* d.strftime("%Y-%m-%d"); glibc's %Y does not pad a year below 1000
Strftime(y, m, d) == NatStr(y) \o <<"-">> \o Pad2(m) \o <<"-">> \o Pad2(d)

\* re.match(r"^\d{4}-\d{2}-\d{2}", s)
IsoPrefixed(s) ==
    /\ Len(s) >= 10
    /\ \A i \in {1, 2, 3, 4, 6, 7, 9, 10} : IsDigit(s[i])
    /\ s[5] = "-" /\ s[8] = "-"

\* re.match(r"^(\d{1,2})\.(\d{1,2})\.(\d{2,4})$", s), p the parts of s
\* between its dots
IsDayMonthYear(p) ==
    /\ Len(p) = 3
    /\ \A i \in 1..3 : AllDigits(p[i])
    /\ Len(p[1]) \in 1..2 /\ Len(p[2]) \in 1..2 /\ Len(p[3]) \in 2..4

\* if year < 100: year += 2000 if year < 50 else 1900
PivotYear(year) ==
    IF year < 100 THEN year + (IF year < 50 THEN 2000 ELSE 1900) ELSE year

\* try: datetime(year, month, day).strftime(...) except ValueError: pass
DateOrEmpty(year, month, day) ==
    IF ValidDate(year, month, day) THEN Strftime(year, month, day) ELSE <<>>

\* The DD.MM.YY / DD.MM.YYYY branch
NormalizeDotted(p) ==
    IF IsDayMonthYear(p)
    THEN DateOrEmpty(PivotYear(DigitsVal(p[3])), DigitsVal(p[2]),
                     DigitsVal(p[1]))
    ELSE <<>>

\* What follows s = str(val).strip()
NormalizeStripped(s) ==
    IF s = <<>> THEN <<>>
    ELSE IF IsoPrefixed(s) THEN Take(s, 10)
    ELSE NormalizeDotted(SplitOn(s, {"."}))

\* Return date as YYYY-MM-DD string, or empty string if unparseable.  The
\* cells of a sheet are str or None (the int/float branch is for numbers).
_normalize_date_to_iso(val) ==
    IF val = None \/ val = <<>> THEN <<>> ELSE NormalizeStripped(Strip(val))

(***************************************************************************)
(* Numbers: float(str).  A float is modelled by its exact decimal value    *)
(* (-1)^neg * m * 10^e, m without trailing zeros, or as inf or nan; "err"  *)
(* stands for ValueError.  The finite range of a double is not modelled.   *)
(***************************************************************************)

FloatErr == [kind |-> "err", neg |-> FALSE, m |-> 0, e |-> 0]
FloatNan == [kind |-> "nan", neg |-> FALSE, m |-> 0, e |-> 0]
FloatInf(neg) == [kind |-> "inf", neg |-> neg, m |-> 0, e |-> 0]

RECURSIVE FloatNum(_, _, _)
FloatNum(neg, m, e) ==
    IF m = 0 THEN [kind |-> "num", neg |-> neg, m |-> 0, e |-> 0]
    ELSE IF m % 10 = 0 THEN FloatNum(neg, m \div 10, e + 1)
    ELSE [kind |-> "num", neg |-> neg, m |-> m, e |-> e]

FloatZero == [kind |-> "num", neg |-> FALSE, m |-> 0, e |-> 0]

\* v < 0, v <= 0, v > 0, v != 0 of a float v (each is False of nan, but !=)
FloatLt0(v) == (v.kind = "num" /\ v.neg /\ v.m > 0) \/ (v.kind = "inf" /\ v.neg)
FloatGt0(v) == (v.kind = "num" /\ ~v.neg /\ v.m > 0) \/ (v.kind = "inf" /\ ~v.neg)
FloatLe0(v) == FloatLt0(v) \/ (v.kind = "num" /\ v.m = 0)
FloatNe0(v) == ~(v.kind = "num" /\ v.m = 0)

\* digit (["_"] digit)*
IsDigitPart(s) ==
    /\ s # <<>>
    /\ IsDigit(s[1]) /\ IsDigit(s[Len(s)])
    /\ \A i \in DOMAIN s : IsDigit(s[i]) \/ s[i] = "_"
    /\ \A i \in 1..(Len(s) - 1) : ~(s[i] = "_" /\ s[i + 1] = "_")

DigitsOf(s) == SelectSeq(s, IsDigit)

HasSign(s) == s # <<>> /\ s[1] \in {"+", "-"}
Unsigned(s) == IF HasSign(s) THEN Tail(s) ELSE s
IsNegative(s) == s # <<>> /\ s[1] = "-"

\* float of integer part ip, fraction fp and exponent ev
FloatOfDigits(neg, ip, fp, ev) ==
    IF /\ ip = <<>> \/ IsDigitPart(ip)
       /\ fp = <<>> \/ IsDigitPart(fp)
       /\ ~(ip = <<>> /\ fp = <<>>)
    THEN FloatNum(neg, DigitsVal(DigitsOf(ip) \o DigitsOf(fp)),
                  ev - Len(DigitsOf(fp)))
    ELSE FloatErr

\* parts: the mantissa split at its dots
FloatOfMantissa(neg, parts, ev) ==
    IF Len(parts) > 2 THEN FloatErr
    ELSE FloatOfDigits(neg, parts[1],
                       IF Len(parts) = 2 THEN parts[2] ELSE <<>>, ev)

\* int(ex) of a well-formed exponent
ExponentVal(ex) ==
    (IF IsNegative(ex) THEN -1 ELSE 1) * DigitsVal(DigitsOf(Unsigned(ex)))

\* me: the unsigned text split at "e" and "E"
FloatOfMantExp(neg, me) ==
    IF Len(me) > 2 THEN FloatErr
    ELSE IF Len(me) = 2 /\ ~IsDigitPart(Unsigned(me[2])) THEN FloatErr
    ELSE FloatOfMantissa(neg, SplitOn(me[1], {"."}),
                         IF Len(me) = 2 THEN ExponentVal(me[2]) ELSE 0)

FloatOfBody(neg, body, low) ==
    IF low \in {<<"i", "n", "f">>, <<"i", "n", "f", "i", "n", "i", "t", "y">>}
    THEN FloatInf(neg)
    ELSE IF low = <<"n", "a", "n">> THEN FloatNan
    ELSE FloatOfMantExp(neg, SplitOn(body, {"e", "E"}))

FloatOfSigned(neg, body) == FloatOfBody(neg, body, Lower(body))

\* float(s) for a str s
ParseFloat(s) == FloatOfSigned(IsNegative(Strip(s)), Unsigned(Strip(s)))

\* s.replace(old, new) for one-character old and new
Replace(s, old, new) == [i \in DOMAIN s |-> IF s[i] = old THEN new ELSE s[i]]

(***************************************************************************)
(* Schema detection and cell access, the same in every builder             *)
(***************************************************************************)

Tag == <<"T", "a", "g">>
Joined == <<"J", "o", "i", "n", "e", "d">>
Tgid == <<"t", "g", "i", "d">>
Who == <<"W", "h", "o">>
Song == <<"S", "o", "n", "g">>

\* _index_by_name(header).get(name) is not None
HasColumn(header, name) == \E i \in DOMAIN header : header[i] = name

\* _index_by_name(header)[name], 0-based: the last column of that name (a
\* dict comprehension keeps the last value of a repeated key)
ColumnIndex(header, name) ==
    (CHOOSE i \in DOMAIN header :
        header[i] = name /\ \A j \in DOMAIN header : header[j] = name => j <= i)
    - 1

\* row[idx] for a 0-based idx within the row
Cell(row, idx) == row[idx + 1]

\* row[idx] if idx < len(row) else None
CellOrNone(row, idx) == IF idx < Len(row) THEN Cell(row, idx) ELSE None

_get_safe(row, idx) ==
    IF idx < 0 \/ idx >= Len(row) THEN <<>>
    ELSE IF Cell(row, idx) = None THEN <<>> ELSE Strip(Cell(row, idx))

\* values[1:]
DataRows(vals) == Tail(vals)

(***************************************************************************)
(* dim_chorister (dim_chorister.py)                                        *)
(***************************************************************************)

\* A variant in which every whitespace character becomes a "_" of its own
UnderscoreEachSpace(name) == [i \in DOMAIN name |-> IF IsSpace(name[i]) THEN "_" ELSE name[i]]

\* re.sub(r"\s+", "_", name): every run of whitespace becomes one "_"
CollapseSpaces(name) ==
    SelectSeq([i \in DOMAIN name |->
                  IF IsSpace(name[i])
                  THEN (IF i > 1 /\ IsSpace(name[i - 1]) THEN "" ELSE "_")
                  ELSE name[i]],
              LAMBDA c : c # "")

\* name.strip().lower(), then the two re.sub: the second, of r"[^\w_]+",
\* keeps the word characters
_normalize_name(full_name) ==
    SelectSeq(CollapseSpaces(Lower(Strip(full_name))), IsWord)

Sep == <<" ", "|", " ">>

\* The id of the count-th chorister of that full_name
ChoristerIdOf(full_name, joined_date, count) ==
    IF count = 1 THEN full_name ELSE full_name \o Sep \o joined_date

\* _make_chorister_id: <<the id, seen_names after the call>>
_make_chorister_id(full_name, joined_date, seen_names) ==
    << ChoristerIdOf(full_name, joined_date, Get(seen_names, full_name, 0) + 1),
       Put(seen_names, full_name, Get(seen_names, full_name, 0) + 1) >>

\* The filter of lines 87-93 on the row's Tag and Who
EligibleCells(tag, full_name) == tag # <<>> /\ tag # Song /\ full_name # <<>>

\* The row is a chorister's
Eligible(row, header) ==
    EligibleCells(_get_safe(row, ColumnIndex(header, Tag)),
                  _get_safe(row, ColumnIndex(header, Who)))

\* A variant whose chorister_id_by_key always holds the disambiguated id,
\* whatever id the row was given
DimChoristerAddDisambiguated(acc, full_name, joined_date, tgid, made, norm, src, now_iso) ==
    [rows |-> Append(acc.rows,
                [chorister_id |-> made[1], tgid |-> tgid,
                 full_name |-> full_name, joined_date |-> joined_date,
                 created_at |-> now_iso, updated_at |-> now_iso,
                 src |-> src]),
     seen_names |-> made[2],
     chorister_id_by_key |->
         Put(acc.chorister_id_by_key, <<full_name, joined_date>>,
             ChoristerIdOf(full_name, joined_date, 2)),
     normalized_to_chorister_id |->
         IF norm \in DOMAIN acc.normalized_to_chorister_id
         THEN acc.normalized_to_chorister_id
         ELSE Put(acc.normalized_to_chorister_id, norm, made[1])]

\* Lines 98-118: the row appended and the lookups updated.  src is the place
\* of the row in values[1:]; it is no column of the table.
DimChoristerAdd(acc, full_name, joined_date, tgid, made, norm, src, now_iso) ==
    [rows |-> Append(acc.rows,
                [chorister_id |-> made[1], tgid |-> tgid,
                 full_name |-> full_name, joined_date |-> joined_date,
                 created_at |-> now_iso, updated_at |-> now_iso,
                 src |-> src]),
     seen_names |-> made[2],
     chorister_id_by_key |->
         Put(acc.chorister_id_by_key, <<full_name, joined_date>>, made[1]),
     normalized_to_chorister_id |->
         IF norm \in DOMAIN acc.normalized_to_chorister_id
         THEN acc.normalized_to_chorister_id
         ELSE Put(acc.normalized_to_chorister_id, norm, made[1])]

DimChoristerRow(acc, full_name, joined_date, tgid, src, now_iso) ==
    DimChoristerAdd(acc, full_name, joined_date, tgid,
                    _make_chorister_id(full_name, joined_date, acc.seen_names),
                    _normalize_name(full_name), src, now_iso)

\* One pass of the loop over values[1:] (lines 86-118)
DimChoristerStep(acc, row, src, header, now_iso) ==
    IF ~Eligible(row, header) THEN acc
    ELSE DimChoristerRow(acc, _get_safe(row, ColumnIndex(header, Who)),
                         _get_safe(row, ColumnIndex(header, Joined)),
                         IF HasColumn(header, Tgid)
                         THEN _get_safe(row, ColumnIndex(header, Tgid))
                         ELSE <<>>,
                         src, now_iso)

RECURSIVE DimChoristerLoop(_, _, _, _, _)
DimChoristerLoop(acc, rows, src, header, now_iso) ==
    IF src > Len(rows) THEN acc
    ELSE DimChoristerLoop(DimChoristerStep(acc, rows[src], src, header, now_iso),
                          rows, src + 1, header, now_iso)

DimChoristerEmpty ==
    [rows |-> <<>>, seen_names |-> EmptyDict,
     chorister_id_by_key |-> EmptyDict,
     normalized_to_chorister_id |-> EmptyDict]

\* Required names present (lines 72-78)
HasRequired(header) ==
    HasColumn(header, Tag) /\ HasColumn(header, Joined) /\ HasColumn(header, Who)

\* The data rows and the two lookups; the header row DIM_CHORISTER_HEADER,
\* always returned, is left out.
build_dim_chorister_from_raw(vals, now_iso) ==
    IF vals = <<>> THEN DimChoristerEmpty
    ELSE IF ~HasRequired(vals[1]) THEN DimChoristerEmpty
    ELSE DimChoristerLoop(DimChoristerEmpty, DataRows(vals), 1, vals[1], now_iso)

(***************************************************************************)
(* dim_chorister_assignment (dim_chorister.py)                             *)
(***************************************************************************)

\* "maria_didurenko" in code points (Maria Didurenko)
MariaDidurenko ==
    <<"u043C", "u0430", "u0440", "u0438", "u044F", "_", "u0434", "u0438",
      "u0434", "u0443", "u0440", "u0435", "u043D", "u043A", "u043E">>

\* "polina_kalach" in code points (Polina Kalach)
PolinaKalach ==
    <<"u043F", "u043E", "u043B", "u0438", "u043D", "u0430", "_", "u043A",
      "u0430", "u043B", "u0430", "u0447">>

\* "mitya_chernakov" in code points (Mitya Chernakov)
MityaChernakov ==
    <<"u043C", "u0438", "u0442", "u044F", "_", "u0447", "u0435", "u0440",
      "u043D", "u0430", "u043A", "u043E", "u0432">>

\* Hard-coded voice-part history overrides, keyed by normalized full_name
CHORISTER_ASSIGNMENT_OVERRIDES ==
    LET o(first, second) == <<first, second>>
    IN (MariaDidurenko :>
        o([voice_part |-> <<"s", "o", "p", "r", "a", "n", "o">>,
          valid_from |-> <<"1", "6", ".", "0", "6", ".", "2", "4">>,
          valid_to |-> <<"0", "1", ".", "1", "0", ".", "2", "4">>],
          [voice_part |-> <<"a", "l", "t", "o">>,
          valid_from |-> <<"0", "2", ".", "1", "0", ".", "2", "4">>,
          valid_to |-> <<>>]))
    @@ (PolinaKalach :>
        o([voice_part |-> <<"a", "l", "t", "o">>,
          valid_from |-> <<"1", "6", ".", "0", "6", ".", "2", "4">>,
          valid_to |-> <<"0", "1", ".", "1", "0", ".", "2", "4">>],
          [voice_part |-> <<"s", "o", "p", "r", "a", "n", "o">>,
          valid_from |-> <<"0", "2", ".", "1", "0", ".", "2", "4">>,
          valid_to |-> <<>>]))
    @@ (MityaChernakov :>
        o([voice_part |-> <<"b", "a", "s", "s">>,
          valid_from |-> <<"1", "6", ".", "0", "6", ".", "2", "4">>,
          valid_to |-> <<"3", "1", ".", "1", "2", ".", "2", "5">>],
          [voice_part |-> <<"t", "e", "n", "o", "r">>,
          valid_from |-> <<"0", "1", ".", "0", "1", ".", "2", "6">>,
          valid_to |-> <<>>]))


TrueCell == <<"T", "R", "U", "E">>
FalseCell == <<"F", "A", "L", "S", "E">>

\* voice_part and is_active of the stripped tag raw; ex: it starts with "ex"
VoicePartOf(raw, ex) ==
    [voice_part |->
         Lower(Strip(IF ex THEN LStrip(Drop(raw, 2), {" ", "-", "_"}) ELSE raw)),
     is_active |-> ~ex]

\* A variant that looks for "ex" in the tag as it is written
ExtractCaseSensitive(raw) == VoicePartOf(raw, StartsWith(raw, <<"e", "x">>))

ExtractFromRaw(raw) == VoicePartOf(raw, StartsWith(Lower(raw), <<"e", "x">>))

_extract_voice_part_and_active(tag) == ExtractFromRaw(Strip(tag))

\* f"{chorister_id} | {voice_part} | {valid_from}"
AssignmentId(chorister_id, voice_part, valid_from) ==
    chorister_id \o Sep \o voice_part \o Sep \o valid_from

\* The row of one override entry o (lines 227-241), voice_part its voice
\* part stripped and lowered
OverrideRow(o, voice_part, override_chorister_id, src) ==
    [assignment_id |->
         AssignmentId(override_chorister_id, voice_part, o.valid_from),
     chorister_id |-> override_chorister_id,
     voice_part |-> voice_part,
     is_active |-> TrueCell,
     valid_from |-> o.valid_from,
     valid_to |-> o.valid_to,
     src |-> src]

\* The rows one override entry list gives (lines 226-241)
OverrideRows(overrides, override_chorister_id, src) ==
    [k \in DOMAIN overrides |->
        OverrideRow(overrides[k], Lower(Strip(overrides[k].voice_part)),
                    override_chorister_id, src)]

\* The row the tag gives (lines 243-261)
TagRow(chorister_id, vp_info, joined_date, src) ==
    [assignment_id |->
         AssignmentId(chorister_id, vp_info.voice_part, joined_date),
     chorister_id |-> chorister_id,
     voice_part |-> vp_info.voice_part,
     is_active |-> IF vp_info.is_active THEN TrueCell ELSE FalseCell,
     valid_from |-> joined_date,
     valid_to |-> <<>>,
     src |-> src]

\* AssignmentRowsFor were the override table never consulted: the row the tag
\* gives, whatever the name.  C6 tells the builder from this one.
AssignmentRowsFromTag(tag, joined_date, chorister_id, normalized_name, overrides, by_norm, src) ==
    <<TagRow(chorister_id, _extract_voice_part_and_active(tag), joined_date,
             src)>>

\* Lines 222-261, overrides being the entry of the row's normalized name
AssignmentRowsFor(tag, joined_date, chorister_id, normalized_name, overrides, by_norm, src) ==
    IF overrides # <<>>
    THEN OverrideRows(overrides, Get(by_norm, normalized_name, chorister_id),
                      src)
    ELSE <<TagRow(chorister_id, _extract_voice_part_and_active(tag),
                  joined_date, src)>>

\* Lines 219-224
AssignmentRowsNamed(tag, full_name, joined_date, normalized_name, by_key, by_norm, src) ==
    AssignmentRowsFor(tag, joined_date,
                      Get(by_key, <<full_name, joined_date>>, full_name),
                      normalized_name,
                      Get(CHORISTER_ASSIGNMENT_OVERRIDES, normalized_name, <<>>),
                      by_norm, src)

AssignmentRowsCells(tag, full_name, joined_date, by_key, by_norm, src) ==
    AssignmentRowsNamed(tag, full_name, joined_date,
                        _normalize_name(full_name), by_key, by_norm, src)

\* The rows of one pass of the loop over values[1:] (lines 202-261); src is
\* the place of the row in values[1:], no column of the table.
AssignmentRowsOf(row, src, header, by_key, by_norm) ==
    IF ~Eligible(row, header) THEN <<>>
    ELSE AssignmentRowsCells(_get_safe(row, ColumnIndex(header, Tag)),
                             _get_safe(row, ColumnIndex(header, Who)),
                             _get_safe(row, ColumnIndex(header, Joined)),
                             by_key, by_norm, src)

RECURSIVE AssignmentLoop(_, _, _, _, _)
AssignmentLoop(rows, src, header, by_key, by_norm) ==
    IF src > Len(rows) THEN <<>>
    ELSE AssignmentRowsOf(rows[src], src, header, by_key, by_norm)
            \o AssignmentLoop(rows, src + 1, header, by_key, by_norm)

\* The data rows (the header row is left out)
build_dim_chorister_assignment_from_raw(vals, by_key, by_norm) ==
    IF vals = <<>> THEN <<>>
    ELSE IF ~HasRequired(vals[1]) THEN <<>>
    ELSE AssignmentLoop(DataRows(vals), 1, vals[1], by_key, by_norm)

(***************************************************************************)
(* fact_attendance (fact_attendance.py).  A call either returns its data   *)
(* rows or raises RuntimeError: [raised, error, rows], where error holds   *)
(* what the message of the RuntimeError is formatted from.                 *)
(***************************************************************************)

DATE_COLUMNS_START_INDEX == 4

NoError == [kind |-> "none"]
Returned(rows) == [raised |-> FALSE, error |-> NoError, rows |-> rows]
Raised(error) == [raised |-> TRUE, error |-> error, rows |-> <<>>]
\* rows, then what the rest of the loop does: its rows, or its RuntimeError
Then(rows, rest) == IF rest.raised THEN rest ELSE Returned(rows \o rest.rows)
\* first, and if it did not raise, the rest of the loop
AndThen(first, rest) == IF first.raised THEN first ELSE Then(first.rows, rest)

\* The RuntimeError of _parse_hours_strict: its message names chorister_id,
\* rehearsal_date and (but for an empty value) raw_value.
HoursError(why, value, chorister_id, rehearsal_date) ==
    [kind |-> "hours", why |-> why, chorister_id |-> chorister_id,
     rehearsal_date |-> rehearsal_date, raw_value |-> value]

\* raise RuntimeError(...) in _parse_hours_strict
HoursRaised(why, value, chorister_id, rehearsal_date) ==
    [raised |-> TRUE, hours |-> FloatZero,
     error |-> HoursError(why, value, chorister_id, rehearsal_date)]

\* Lines 80-92: v is float(s), or ValueError
HoursOfFloat(v, value, chorister_id, rehearsal_date) ==
    IF v.kind = "err"
    THEN HoursRaised("unparseable", value, chorister_id, rehearsal_date)
    ELSE IF FloatLt0(v)
    THEN HoursRaised("negative", value, chorister_id, rehearsal_date)
    ELSE [raised |-> FALSE, hours |-> v, error |-> NoError]

\* Lines 73-92: s is str(value).strip()
HoursOfStripped(s, value, chorister_id, rehearsal_date) ==
    IF s = <<>> THEN HoursRaised("blank", value, chorister_id, rehearsal_date)
    ELSE HoursOfFloat(ParseFloat(Replace(s, ",", ".")), value, chorister_id,
                      rehearsal_date)

\* [raised, error, hours]
_parse_hours_strict(value, chorister_id, rehearsal_date) ==
    IF value = None \/ value = <<>>
    THEN HoursRaised("empty", value, chorister_id, rehearsal_date)
    ELSE HoursOfStripped(Strip(value), value, chorister_id, rehearsal_date)

\* The scan of the header from column E on (lines 117-133):
\* [raised, error, date_columns], date_columns a sequence of <<idx, iso>>.
\* DateColumnsStep is one pass, on the header cell date_str with date iso.
RECURSIVE DateColumnsLoop(_, _, _, _), DateColumnsStep(_, _, _, _, _, _)
DateColumnsLoop(header, idx, seen_iso, date_columns) ==
    IF idx >= Len(header)
    THEN [raised |-> FALSE, error |-> NoError, date_columns |-> date_columns]
    ELSE DateColumnsStep(header, idx, seen_iso, date_columns,
                         _get_safe(header, idx),
                         _normalize_date_to_iso(_get_safe(header, idx)))

\* DateColumnsStep were a date seen before kept as one more column (lines
\* 127-131 left out).  C4 tells the scan from this one.
DateColumnsStepKeepingAll(header, idx, seen_iso, date_columns, date_str, iso) ==
    IF date_str = <<>> \/ iso = <<>>
    THEN DateColumnsLoop(header, idx + 1, seen_iso, date_columns)
    ELSE DateColumnsLoop(header, idx + 1, Put(seen_iso, iso, idx),
                         Append(date_columns, <<idx, iso>>))

DateColumnsStep(header, idx, seen_iso, date_columns, date_str, iso) ==
    IF date_str = <<>> \/ iso = <<>>
    THEN DateColumnsLoop(header, idx + 1, seen_iso, date_columns)
    ELSE IF iso \in DOMAIN seen_iso
    THEN [raised |-> TRUE, date_columns |-> <<>>,
          error |-> [kind |-> "duplicate_date", iso |-> iso,
                     first_idx |-> seen_iso[iso], idx |-> idx,
                     raw_header |-> date_str]]
    ELSE DateColumnsLoop(header, idx + 1, Put(seen_iso, iso, idx),
                         Append(date_columns, <<idx, iso>>))

\* A row of fact_attendance; src is the place of the chorister's row in
\* values[1:], no column of the table.
FactAttendanceRow(rehearsal_date_iso, chorister_id, hours, missed_flag, now_iso, src) ==
    [rehearsal_date |-> rehearsal_date_iso, chorister_id |-> chorister_id,
     hours_attended |-> hours, missed_flag |-> missed_flag,
     load_ts |-> now_iso, src |-> src]

\* Lines 157-159: parsed is what _parse_hours_strict did
AttendanceParsed(parsed, chorister_id, rehearsal_date_iso, now_iso, src, rest) ==
    IF parsed.raised THEN Raised(parsed.error)
    ELSE Then(<<FactAttendanceRow(rehearsal_date_iso, chorister_id,
                                  parsed.hours, 0, now_iso, src)>>, rest)

\* Lines 153-159 on one cell raw_val, then the rest of the cells
AttendanceCell(raw_val, chorister_id, rehearsal_date_iso, now_iso, src, rest) ==
    IF raw_val = None \/ Strip(raw_val) = <<>>
    THEN Then(<<FactAttendanceRow(rehearsal_date_iso, chorister_id, FloatZero,
                                  1, now_iso, src)>>, rest)
    ELSE AttendanceParsed(
             _parse_hours_strict(raw_val, chorister_id, rehearsal_date_iso),
             chorister_id, rehearsal_date_iso, now_iso, src, rest)

\* The cells of one chorister row (lines 152-159): a call result, the rows
\* those of the cells before the first that raises
RECURSIVE AttendanceCells(_, _, _, _, _, _)
AttendanceCells(row, src, chorister_id, date_columns, k, now_iso) ==
    IF k > Len(date_columns) THEN Returned(<<>>)
    ELSE AttendanceCell(CellOrNone(row, date_columns[k][1]), chorister_id,
                        date_columns[k][2], now_iso, src,
                        AttendanceCells(row, src, chorister_id, date_columns,
                                        k + 1, now_iso))

\* One pass of the loop over values[1:] (lines 138-159), then the rest
AttendanceRow(row, src, eligible, chorister_id, date_columns, now_iso, rest) ==
    IF ~eligible \/ chorister_id = <<>> THEN rest
    ELSE AndThen(AttendanceCells(row, src, chorister_id, date_columns, 1,
                                 now_iso), rest)

\* chorister_id_by_key.get((full_name, joined_date)) of a row
ChoristerIdOfRow(row, header, by_key) ==
    Get(by_key, << _get_safe(row, ColumnIndex(header, Who)),
                   _get_safe(row, ColumnIndex(header, Joined)) >>, <<>>)

\* The loop over values[1:] (lines 138-159)
RECURSIVE AttendanceLoop(_, _, _, _, _, _)
AttendanceLoop(rows, src, header, by_key, date_columns, now_iso) ==
    IF src > Len(rows) THEN Returned(<<>>)
    ELSE AttendanceRow(rows[src], src, Eligible(rows[src], header),
                       ChoristerIdOfRow(rows[src], header, by_key),
                       date_columns, now_iso,
                       AttendanceLoop(rows, src + 1, header, by_key,
                                      date_columns, now_iso))

\* Lines 134-161, cols being what the scan of the header gave
FactAttendanceOf(cols, vals, by_key, now_iso) ==
    IF cols.raised THEN Raised(cols.error)
    ELSE AttendanceLoop(DataRows(vals), 1, vals[1], by_key, cols.date_columns,
                        now_iso)

build_fact_attendance_from_raw(vals, by_key, now_iso) ==
    IF vals = <<>> THEN Returned(<<>>)
    ELSE IF ~HasRequired(vals[1]) THEN Returned(<<>>)
    ELSE FactAttendanceOf(DateColumnsLoop(vals[1], DATE_COLUMNS_START_INDEX,
                                          EmptyDict, <<>>),
                          vals, by_key, now_iso)

(***************************************************************************)
(* dim_song (dim_song.py) and fact_song_time (fact_song_time.py)           *)
(***************************************************************************)

\* f"{song_name} ({count})"
SongIdOf(song_name, count) ==
    IF count = 1 THEN song_name
    ELSE song_name \o <<" ", "(">> \o NatStr(count) \o <<")">>

\* Lines 57-63 of dim_song.py: the song appended, count its number among
\* the songs of that title
DimSongAdd(acc, song_name, count, src, now_iso) ==
    [rows |-> Append(acc.rows,
                [song_id |-> SongIdOf(song_name, count),
                 song_name |-> song_name,
                 created_at |-> now_iso, updated_at |-> now_iso,
                 src |-> src]),
     song_ids_ordered |->
         Append(acc.song_ids_ordered, SongIdOf(song_name, count)),
     seen_titles |-> Put(acc.seen_titles, song_name, count)]

DimSongCells(acc, tag, song_name, src, now_iso) ==
    IF tag # Song \/ song_name = <<>> THEN acc
    ELSE DimSongAdd(acc, song_name, Get(acc.seen_titles, song_name, 0) + 1,
                    src, now_iso)

\* One pass of the loop over values[1:] (dim_song.py lines 50-63)
DimSongStep(acc, row, src, header, now_iso) ==
    DimSongCells(acc, _get_safe(row, ColumnIndex(header, Tag)),
                 _get_safe(row, ColumnIndex(header, Who)), src, now_iso)

RECURSIVE DimSongLoop(_, _, _, _, _)
DimSongLoop(acc, rows, src, header, now_iso) ==
    IF src > Len(rows) THEN acc
    ELSE DimSongLoop(DimSongStep(acc, rows[src], src, header, now_iso),
                     rows, src + 1, header, now_iso)

DimSongEmpty ==
    [rows |-> <<>>, song_ids_ordered |-> <<>>, seen_titles |-> EmptyDict]

\* The data rows and song_ids_ordered
build_dim_song_from_raw(vals, now_iso) ==
    IF vals = <<>> THEN DimSongEmpty
    ELSE IF ~(HasColumn(vals[1], Tag) /\ HasColumn(vals[1], Who))
    THEN DimSongEmpty
    ELSE DimSongLoop(DimSongEmpty, DataRows(vals), 1, vals[1], now_iso)

NoMinutes == [some |-> FALSE, minutes |-> FloatZero]

\* try: return float(s) except ValueError: return None
MinutesOfFloat(v) ==
    IF v.kind = "err" THEN NoMinutes ELSE [some |-> TRUE, minutes |-> v]

\* s is str(value).strip().replace(",", ".")
MinutesOfStripped(s) ==
    IF s = <<>> THEN NoMinutes ELSE MinutesOfFloat(ParseFloat(s))

\* Return minutes as float if cell has a number, else None: [some, minutes]
_parse_minutes(value) ==
    IF value = None \/ value = <<>> THEN NoMinutes
    ELSE MinutesOfStripped(Replace(Strip(value), ",", "."))

\* date_columns of fact_song_time.py (lines 63-67), from column idx on:
\* <<idx, date_str>> of every header cell that is not empty
RECURSIVE SongDateColumns(_, _)
SongDateColumns(header, idx) ==
    IF idx >= Len(header) THEN <<>>
    ELSE (IF _get_safe(header, idx) # <<>>
          THEN << <<idx, _get_safe(header, idx)>> >> ELSE <<>>)
            \o SongDateColumns(header, idx + 1)

\* Lines 84-86 on one cell, minutes being what _parse_minutes gave
SongCell(minutes, rehearsal_date, song_id, now_iso, src) ==
    IF minutes.some
    THEN <<[rehearsal_date |-> rehearsal_date, song_id |-> song_id,
            minutes_spent |-> minutes.minutes, load_ts |-> now_iso,
            src |-> src]>>
    ELSE <<>>

\* The rows of one Song row (lines 83-86)
RECURSIVE SongCells(_, _, _, _, _, _)
SongCells(row, src, song_id, date_columns, k, now_iso) ==
    IF k > Len(date_columns) THEN <<>>
    ELSE SongCell(_parse_minutes(CellOrNone(row, date_columns[k][1])),
                  date_columns[k][2], song_id, now_iso, src)
            \o SongCells(row, src, song_id, date_columns, k + 1, now_iso)

\* The loop over values[1:] (lines 73-86); song_index counts the Song rows
RECURSIVE SongTimeLoop(_, _, _, _, _, _, _)
SongTimeLoop(rows, src, header, ids, song_index, date_columns, now_iso) ==
    IF src > Len(rows) THEN <<>>
    ELSE IF _get_safe(rows[src], ColumnIndex(header, Tag)) # Song
    THEN SongTimeLoop(rows, src + 1, header, ids, song_index, date_columns,
                      now_iso)
    ELSE IF song_index >= Len(ids) THEN <<>>
    ELSE SongCells(rows[src], src, ids[song_index + 1], date_columns, 1,
                   now_iso)
            \o SongTimeLoop(rows, src + 1, header, ids, song_index + 1,
                            date_columns, now_iso)

build_fact_song_time_from_raw(vals, ids, now_iso) ==
    IF vals = <<>> \/ ids = <<>> THEN <<>>
    ELSE IF ~(HasColumn(vals[1], Tag) /\ HasColumn(vals[1], Who)) THEN <<>>
    ELSE SongTimeLoop(DataRows(vals), 1, vals[1], ids, 0,
                      SongDateColumns(vals[1], DATE_COLUMNS_START_INDEX),
                      now_iso)

(***************************************************************************)
(* Marts (marts.py).  A table is what read_table returns: a sequence of    *)
(* dicts, here records, whose values are str or None.                      *)
(***************************************************************************)

_safe_str(val) == IF val = None THEN <<>> ELSE Strip(val)

\* try: return float(...) except ValueError: return default
FloatOr(v, default) == IF v.kind = "err" THEN default ELSE v

\* _safe_float(val, default)
_safe_float(val, default) ==
    IF val = None \/ val = <<>> THEN default
    ELSE FloatOr(ParseFloat(Replace(val, ",", ".")), default)

\* list.sort(key=lambda x: x[0], reverse=True) of a list of <<vf, voice_part>>:
\* descending by vf, equal keys keeping their order (the sort is stable, also
\* when reversed).  InsertDesc(sorted, c) puts c after every entry whose key
\* is not below its own.
RECURSIVE InsertDesc(_, _)
InsertDesc(sorted, c) ==
    IF sorted = <<>> THEN <<c>>
    ELSE IF StrLt(sorted[1][1], c[1]) THEN <<c>> \o sorted
    ELSE <<sorted[1]>> \o InsertDesc(Tail(sorted), c)

RECURSIVE SortDesc(_)
SortDesc(cands) ==
    IF cands = <<>> THEN <<>>
    ELSE InsertDesc(SortDesc(SubSeq(cands, 1, Len(cands) - 1)),
                    cands[Len(cands)])

\* EndedBefore were a valid_to that is no date an end already passed.  C3
\* tells the filter from this one.
EndedBeforeOrNoDate(vt, vt_iso, rehearsal_date_iso) ==
    vt # <<>> /\ (vt_iso = <<>> \/ StrLt(vt_iso, rehearsal_date_iso))

\* Line 74: vt and its date are not empty and the rehearsal is after it
EndedBefore(vt, vt_iso, rehearsal_date_iso) ==
    vt # <<>> /\ vt_iso # <<>> /\ StrLt(vt_iso, rehearsal_date_iso)

\* Lines 70-75 on vf and vt of an assignment
CoversDate(vf, vt, rehearsal_date_iso) ==
    /\ vf # <<>>
    /\ ~StrLt(rehearsal_date_iso, vf)
    /\ ~EndedBefore(vt, _normalize_date_to_iso(vt), rehearsal_date_iso)

\* The filter of lines 65-76: a is a candidate on rehearsal_date_iso
IsCandidate(a, chorister_id, rehearsal_date_iso) ==
    /\ _safe_str(a.chorister_id) = chorister_id
    /\ CoversDate(_normalize_date_to_iso(a.valid_from),
                  _safe_str(IF a.valid_to = None THEN <<>> ELSE a.valid_to),
                  rehearsal_date_iso)

\* candidates, of the assignments kept: (vf, voice_part)
CandidatesOf(kept) ==
    [i \in DOMAIN kept |->
        <<_normalize_date_to_iso(kept[i].valid_from),
          _safe_str(kept[i].voice_part)>>]

\* A variant in which the last of the candidates that start latest wins
LastVoicePart(candidates) ==
    IF candidates = <<>> THEN <<>>
    ELSE SortDesc([i \in DOMAIN candidates |->
                      candidates[Len(candidates) + 1 - i]])[1][2]

\* Lines 77-80
FirstVoicePart(candidates) ==
    IF candidates = <<>> THEN <<>> ELSE SortDesc(candidates)[1][2]

_get_voice_part_for_date(chorister_id, rehearsal_date_iso, assignments) ==
    IF rehearsal_date_iso = <<>> THEN <<>>
    ELSE FirstVoicePart(CandidatesOf(
             SelectSeq(assignments,
                 LAMBDA a : IsCandidate(a, chorister_id, rehearsal_date_iso))))

\* {} of "chorister_by_id.get(chorister_id) or {}": every .get gives None
NoChorister ==
    [chorister_id |-> None, full_name |-> None, joined_date |-> None]
NoSong == [song_id |-> None, song_name |-> None]

\* The last row of table among those at hits, or none
LastOf(table, hits, none) ==
    IF hits = {} THEN none
    ELSE table[CHOOSE i \in hits : \A j \in hits : j <= i]

ChoristerId(r) == _safe_str(r.chorister_id)
SongId(r) == _safe_str(r.song_id)
\* {_safe_str(r.get("chorister_id")): r for r in dim_chorister
\*  if _safe_str(r.get("chorister_id"))}.get(id) or {}
ChoristerById(dim, id) ==
    LastOf(dim, {i \in DOMAIN dim : id # <<>> /\ ChoristerId(dim[i]) = id},
           NoChorister)
\* {_safe_str(r.get("song_id")): r for r in dim_song
\*  if _safe_str(r.get("song_id"))}.get(id) or {}
SongById(dim, id) ==
    LastOf(dim, {i \in DOMAIN dim : id # <<>> /\ SongId(dim[i]) = id}, NoSong)

\* Lines 101-109: s is _safe_str(raw), iso the date of raw
JoinedIso(raw, s, iso, chorister_id) ==
    IF s = <<>> THEN [raised |-> FALSE, iso |-> <<>>, error |-> NoError]
    ELSE IF iso = <<>>
    THEN [raised |-> TRUE, iso |-> <<>>,
          error |-> [kind |-> "joined_date", chorister_id |-> chorister_id,
                     raw_value |-> raw]]
    ELSE [raised |-> FALSE, iso |-> iso, error |-> NoError]

\* _joined_date_iso_for_available: [raised, iso, error]
_joined_date_iso_for_available(ch, chorister_id) ==
    JoinedIso(ch.joined_date, _safe_str(ch.joined_date),
              _normalize_date_to_iso(ch.joined_date), chorister_id)

\* iso or _safe_str(raw)
OrText(iso, raw) == IF iso # <<>> THEN iso ELSE _safe_str(raw)

\* _normalize_date_to_iso(raw) or _safe_str(raw)
DateOrText(raw) == OrText(_normalize_date_to_iso(raw), raw)

\* 1 if hours > 0 else 0
AttendedFlag(hours) == IF FloatGt0(hours) THEN 1 ELSE 0

\* 1 if missed_flag_val != 0 else 0
MissedFlag(missed_flag_val) == IF FloatNe0(missed_flag_val) THEN 1 ELSE 0

\* AvailableFlag were the day of joining not yet available (> for >=).  C8
\* tells the flag from this one.
AvailableFlagAfterJoining(joined_date_iso, rehearsal_date_iso) ==
    IF joined_date_iso # <<>> /\ StrLt(joined_date_iso, rehearsal_date_iso)
    THEN 1 ELSE 0

\* 1 if (joined_date_iso and rehearsal_date_iso >= joined_date_iso) else 0
AvailableFlag(joined_date_iso, rehearsal_date_iso) ==
    IF joined_date_iso # <<>> /\ ~StrLt(rehearsal_date_iso, joined_date_iso)
    THEN 1 ELSE 0

\* Lines 144-154: the row, or the RuntimeError joined raised
MartAttendanceOut(rehearsal_date_iso, chorister_id, hours, missed_flag_val, ch, joined, voice_part) ==
    [raised |-> joined.raised, error |-> joined.error,
     row |-> [rehearsal_date |-> rehearsal_date_iso,
              chorister_id |-> chorister_id,
              full_name |-> _safe_str(ch.full_name),
              joined_date |-> DateOrText(ch.joined_date),
              voice_part |-> voice_part,
              hours_attended |-> hours,
              attended_flag |-> AttendedFlag(hours),
              missed_flag |-> MissedFlag(missed_flag_val),
              available_flag |-> AvailableFlag(joined.iso, rehearsal_date_iso)]]

\* Lines 134-142, ch being the chorister of the fact
MartAttendanceOf(rehearsal_date_iso, chorister_id, hours, missed_flag_val, ch, assignments) ==
    MartAttendanceOut(rehearsal_date_iso, chorister_id, hours, missed_flag_val,
                      ch, _joined_date_iso_for_available(ch, chorister_id),
                      _get_voice_part_for_date(chorister_id, rehearsal_date_iso,
                                               assignments))

\* Lines 125-134
MartAttendanceJoin(rehearsal_date_iso, chorister_id, fa, dim, assignments) ==
    MartAttendanceOf(rehearsal_date_iso, chorister_id,
                     _safe_float(fa.hours_attended, FloatZero),
                     _safe_float(fa.missed_flag, FloatZero),
                     ChoristerById(dim, chorister_id), assignments)

\* One pass of the loop of build_mart_attendance (lines 124-154):
\* [raised, error, row]
MartAttendanceRow(fa, dim, assignments) ==
    MartAttendanceJoin(DateOrText(fa.rehearsal_date),
                       _safe_str(fa.chorister_id), fa, dim, assignments)

\* one, and if it did not raise, the rest of the loop
MartAttendanceThen(one, rest) ==
    IF one.raised THEN Raised(one.error) ELSE Then(<<one.row>>, rest)

RECURSIVE MartAttendanceLoop(_, _, _, _)
MartAttendanceLoop(facts, k, dim, assignments) ==
    IF k > Len(facts) THEN Returned(<<>>)
    ELSE MartAttendanceThen(MartAttendanceRow(facts[k], dim, assignments),
                            MartAttendanceLoop(facts, k + 1, dim, assignments))

\* The rows, or the RuntimeError (the header is left out)
build_mart_attendance(dim, assignments, facts) ==
    MartAttendanceLoop(facts, 1, dim, assignments)

\* minutes / 60.0, kept as the quotient it is
Div60(minutes) == [num |-> minutes, den |-> 60]

\* Lines 177-192 on one fact
SongRehearsalRow(rehearsal_date_iso, song_id, minutes, songs) ==
    [rehearsal_date |-> rehearsal_date_iso,
     song_id |-> song_id,
     song_name |-> _safe_str(SongById(songs, song_id).song_name),
     minutes_spent |-> minutes,
     hours_spent |-> Div60(minutes)]

build_mart_song_rehearsal(songs, song_facts) ==
    [k \in DOMAIN song_facts |->
        SongRehearsalRow(DateOrText(song_facts[k].rehearsal_date),
                         _safe_str(song_facts[k].song_id),
                         _safe_float(song_facts[k].minutes_spent, FloatZero),
                         songs)]

\* Lines 226-230: the fact puts its chorister into attending_by_date
IsAttending(fa) ==
    /\ DateOrText(fa.rehearsal_date) # <<>>
    /\ ~FloatLe0(_safe_float(fa.hours_attended, FloatZero))

Attending(facts) == SelectSeq(facts, IsAttending)

\* The keys of a dict in insertion order: the keys put, each at its first place
RECURSIVE KeysInOrder(_, _)
KeysInOrder(keys, seen) ==
    IF keys = <<>> THEN <<>>
    ELSE IF keys[1] \in seen THEN KeysInOrder(Tail(keys), seen)
    ELSE <<keys[1]>> \o KeysInOrder(Tail(keys), seen \cup {keys[1]})

\* The dates of attending_by_date in the order of attending_by_date.items()
AttendingDates(attending) ==
    KeysInOrder([i \in DOMAIN attending |->
                    DateOrText(attending[i].rehearsal_date)], {})

\* Lines 238-240
IsSongOn(fs, d) == d # <<>> /\ DateOrText(fs.rehearsal_date) = d

\* (song_id, minutes) of the facts on
SongPairs(on) ==
    [k \in DOMAIN on |->
        <<_safe_str(on[k].song_id),
          _safe_float(on[k].minutes_spent, FloatZero)>>]

\* songs_by_date[d] (lines 237-245): <<song_id, minutes>> in fact order
SongsOn(song_facts, d) ==
    SongPairs(SelectSeq(song_facts, LAMBDA fs : IsSongOn(fs, d)))

\* attending_by_date[d]: a set of chorister ids
AttendingOn(attending, d) ==
    {_safe_str(attending[k].chorister_id) :
        k \in {i \in DOMAIN attending :
                  DateOrText(attending[i].rehearsal_date) = d}}

\* Lines 255-269: the rows of one chorister ch on one date
ChoristerSongRows(d, chorister_id, songs_on, ch, voice_part, songs) ==
    [k \in DOMAIN songs_on |->
        [rehearsal_date |-> d,
         chorister_id |-> chorister_id,
         full_name |-> _safe_str(ch.full_name),
         joined_date |-> _safe_str(ch.joined_date),
         voice_part |-> voice_part,
         song_id |-> songs_on[k][1],
         song_name |-> _safe_str(SongById(songs, songs_on[k][1]).song_name),
         minutes_spent |-> songs_on[k][2],
         hours_spent |-> Div60(songs_on[k][2])]]

\* Lines 251-269
ChoristerSongsOf(d, chorister_id, songs_on, dim, assignments, songs) ==
    ChoristerSongRows(d, chorister_id, songs_on,
                      ChoristerById(dim, chorister_id),
                      _get_voice_part_for_date(chorister_id, d, assignments),
                      songs)

RECURSIVE Flatten(_)
Flatten(seqs) == IF seqs = <<>> THEN <<>> ELSE seqs[1] \o Flatten(Tail(seqs))

\* A set of str is iterated in the order of its hash table, which the hash
\* seed of the process decides: set_order, a sequence holding every chorister
\* id once, says which of two ids comes first.
IterationOrder(set, set_order) == SelectSeq(set_order, LAMBDA x : x \in set)

\* Lines 249-269 for one date, ids being its choristers as iterated
ChoristerSongOnDate(d, ids, songs_on, dim, assignments, songs) ==
    Flatten([j \in DOMAIN ids |->
                ChoristerSongsOf(d, ids[j], songs_on, dim, assignments, songs)])

\* Lines 248-269, attending being the facts of attending_by_date
ChoristerSongOf(attending, dates, dim, assignments, songs, song_facts, set_order) ==
    Flatten([i \in DOMAIN dates |->
                ChoristerSongOnDate(
                    dates[i],
                    IterationOrder(AttendingOn(attending, dates[i]), set_order),
                    SongsOn(song_facts, dates[i]), dim, assignments, songs)])

ChoristerSongAttending(attending, dim, assignments, songs, song_facts, set_order) ==
    ChoristerSongOf(attending, AttendingDates(attending), dim, assignments,
                    songs, song_facts, set_order)

build_mart_chorister_song(dim, assignments, songs, facts, song_facts, set_order) ==
    ChoristerSongAttending(Attending(facts), dim, assignments, songs,
                           song_facts, set_order)

(***************************************************************************)
(* The run: main() calls the builders in this order on the RAW values it   *)
(* read (main.py lines 153-246).                                           *)
(***************************************************************************)

Unset == <<>>

\* main.py lines 159-162
BuildDimChorister ==
    /\ pc = "start"
    /\ \E built \in {build_dim_chorister_from_raw(values, clock)} :
          /\ dim_chorister' = built.rows
          /\ chorister_id_by_key' = built.chorister_id_by_key
          /\ normalized_to_chorister_id' = built.normalized_to_chorister_id
    /\ pc' = "dim_chorister"
    /\ UNCHANGED <<values, dim_chorister_assignment, dim_song,
                   song_ids_ordered, fact_attendance, fact_song_time, mart_in,
                   mart_attendance, mart_song_rehearsal, mart_chorister_song,
                   vp_in, vp_out, clock>>
    /\ UNCHANGED <<db, start_db, run, reader, name_in, name_out>>

\* main.py lines 177-182
BuildDimChoristerAssignment ==
    /\ pc = "dim_chorister"
    /\ dim_chorister_assignment' =
           build_dim_chorister_assignment_from_raw(
               values, chorister_id_by_key, normalized_to_chorister_id)
    /\ pc' = "dim_chorister_assignment"
    /\ UNCHANGED <<values, dim_chorister, chorister_id_by_key,
                   normalized_to_chorister_id, dim_song, song_ids_ordered,
                   fact_attendance, fact_song_time, mart_in, mart_attendance,
                   mart_song_rehearsal, mart_chorister_song, vp_in, vp_out,
                   clock>>
    /\ UNCHANGED <<db, start_db, run, reader, name_in, name_out>>

\* main.py lines 197-198
BuildDimSong ==
    /\ pc = "dim_chorister_assignment"
    /\ \E built \in {build_dim_song_from_raw(values, clock)} :
          /\ dim_song' = built.rows
          /\ song_ids_ordered' = built.song_ids_ordered
    /\ pc' = "dim_song"
    /\ UNCHANGED <<values, dim_chorister, chorister_id_by_key,
                   normalized_to_chorister_id, dim_chorister_assignment,
                   fact_attendance, fact_song_time, mart_in, mart_attendance,
                   mart_song_rehearsal, mart_chorister_song, vp_in, vp_out,
                   clock>>
    /\ UNCHANGED <<db, start_db, run, reader, name_in, name_out>>

\* main.py lines 213-217; a RuntimeError ends the run (line 257)
BuildFactAttendance ==
    /\ pc = "dim_song"
    /\ fact_attendance' =
           build_fact_attendance_from_raw(values, chorister_id_by_key, clock)
    /\ pc' = IF fact_attendance'.raised THEN "failed" ELSE "fact_attendance"
    /\ UNCHANGED <<values, dim_chorister, chorister_id_by_key,
                   normalized_to_chorister_id, dim_chorister_assignment,
                   dim_song, song_ids_ordered, fact_song_time, mart_in,
                   mart_attendance, mart_song_rehearsal, mart_chorister_song,
                   vp_in, vp_out, clock>>
    /\ UNCHANGED <<db, start_db, run, reader, name_in, name_out>>

\* main.py lines 231-235
BuildFactSongTime ==
    /\ pc = "fact_attendance"
    /\ fact_song_time' =
           build_fact_song_time_from_raw(values, song_ids_ordered, clock)
    /\ pc' = "fact_song_time"
    /\ UNCHANGED <<values, dim_chorister, chorister_id_by_key,
                   normalized_to_chorister_id, dim_chorister_assignment,
                   dim_song, song_ids_ordered, fact_attendance, mart_in,
                   mart_attendance, mart_song_rehearsal, mart_chorister_song,
                   vp_in, vp_out, clock>>
    /\ UNCHANGED <<db, start_db, run, reader, name_in, name_out>>

NextBuild ==
    \/ BuildDimChorister
    \/ BuildDimChoristerAssignment
    \/ BuildDimSong
    \/ BuildFactAttendance
    \/ BuildFactSongTime

\* The state main() starts the builders in, RAW being vals
InitBuild(vals) ==
    /\ pc = "start"
    /\ values = vals
    /\ dim_chorister = Unset
    /\ chorister_id_by_key = Unset
    /\ normalized_to_chorister_id = Unset
    /\ dim_chorister_assignment = Unset
    /\ dim_song = Unset
    /\ song_ids_ordered = Unset
    /\ fact_attendance = Returned(Unset)
    /\ fact_song_time = Unset
    /\ mart_in = Unset
    /\ mart_attendance = Returned(Unset)
    /\ mart_song_rehearsal = Unset
    /\ mart_chorister_song = Unset
    /\ vp_in = Unset
    /\ vp_out = Unset
    /\ clock = 0
    /\ db = Unset
    /\ start_db = Unset
    /\ run = Unset
    /\ reader = Unset
    /\ name_in = Unset
    /\ name_out = Unset

\* All sequences over set of length at most n
SeqsUpTo(set, n) == UNION {[1..k -> set] : k \in 0..n}


(***************************************************************************)
(* RAW sheets that differ in who the rows are                              *)
(***************************************************************************)

MaxRows == 3

D160624 == <<"1", "6", ".", "0", "6", ".", "2", "4">>
D021024 == <<"0", "2", ".", "1", "0", ".", "2", "4">>
D230624 == <<"2", "3", ".", "0", "6", ".", "2", "4">>
Iso160624 == <<"2", "0", "2", "4", "-", "0", "6", "-", "1", "6">>
Iso230624 == <<"2", "0", "2", "4", "-", "0", "6", "-", "2", "3">>
Alto == <<"A", "l", "t", "o">>
ExAlto == <<"e", "x", "A", "l", "t", "o">>
Tenor == <<"T", "e", "n", "o", "r">>
Ann == <<"A", "n", "n">>
\* the id a second Ann who joined on 16.06.24 is given
AnnJoined == <<"A", "n", "n", " ", "|", " ", "1", "6", ".", "0", "6", ".", "2", "4">>
\* "Maria Didurenko" in Cyrillic, as the sheet holds it
Maria == <<"u041C", "u0430", "u0440", "u0438", "u044F", " ", "u0414", "u0438", "u0434", "u0443", "u0440", "u0435", "u043D", "u043A", "u043E">>
\* the same name typed in lower case, three spaces between
MariaTyped == <<"u043C", "u0430", "u0440", "u0438", "u044F", " ", " ", " ", "u0434", "u0438", "u0434", "u0443", "u0440", "u0435", "u043D", "u043A", "u043E">>
AveMaria == <<"A", "v", "e", " ", "M", "a", "r", "i", "a">>
Gloria == <<"G", "l", "o", "r", "i", "a">>

IdentityHeader == <<Tag, Joined, Tgid, Who, D160624>>

\* Rows <<Tag, Joined, tgid, Who, the cell of 16.06.24>>
AnnRow == <<Alto, D160624, <<>>, Ann, <<"2">>>>
MariaRow == <<Alto, D160624, <<>>, Maria, <<"2">>>>
MariaTypedRow == <<Tenor, D021024, <<>>, MariaTyped, <<>>>>
AveMariaRow == <<Song, <<>>, <<>>, AveMaria, <<"3", "0">>>>
GloriaRow == <<Song, <<>>, <<>>, Gloria, <<"1", "0">>>>
\* a Song row whose Who is empty
NamelessSongRow == <<Song, <<>>, <<>>, <<>>, <<"4", "5">>>>

IdentityRows ==
    { AnnRow,
      <<ExAlto, D021024, <<>>, Ann, <<>>>>,
      <<Tenor, D160624, <<>>, AnnJoined, <<"1">>>>,
      MariaRow,
      MariaTypedRow,
      AveMariaRow,
      GloriaRow,
      NamelessSongRow,
      <<<<>>, D160624, <<>>, Ann, <<"2">>>>,
      <<Alto, D160624, <<>>, <<>>, <<"2">>>> }

InitIdentity ==
    \E rows \in SeqsUpTo(IdentityRows, MaxRows) :
        InitBuild(<<IdentityHeader>> \o rows)

SpecIdentity == InitIdentity /\ [][NextBuild]_vars

\* The builders that have run
AfterDimChorister == pc # "start"
AfterAssignment == pc \notin {"start", "dim_chorister"}
AttendanceReturned == pc \in {"fact_attendance", "fact_song_time"}

\* The rows of a table that came from the row of values[1:] at src
RowsFrom(table, src) == SelectSeq(table, LAMBDA r : r.src = src)

\* The dates of the header that fact_attendance keeps
RetainedDates(header) ==
    {_normalize_date_to_iso(_get_safe(header, i)) :
        i \in DATE_COLUMNS_START_INDEX..(Len(header) - 1)} \ {<<>>}

\* C1: the rows of dim_chorister have pairwise distinct chorister_id values,
\* and the first row of a full_name has that full_name as its chorister_id.
C1_DistinctChoristerIds ==
    AfterDimChorister =>
        /\ \A i, j \in DOMAIN dim_chorister :
              i # j => dim_chorister[i].chorister_id # dim_chorister[j].chorister_id
        /\ \A i \in DOMAIN dim_chorister :
              (\A j \in 1..(i - 1) :
                  dim_chorister[j].full_name # dim_chorister[i].full_name)
                => dim_chorister[i].chorister_id = dim_chorister[i].full_name

\* C2: when build_fact_attendance_from_raw returns, fact_attendance holds
\* exactly one row for every chorister_id of dim_chorister and retained date,
\* and no row of any other pair.
C2_OneFactPerChoristerAndDate ==
    AttendanceReturned =>
        /\ \A i \in DOMAIN dim_chorister, d \in RetainedDates(values[1]) :
              Cardinality({k \in DOMAIN fact_attendance.rows :
                  /\ fact_attendance.rows[k].chorister_id
                         = dim_chorister[i].chorister_id
                  /\ fact_attendance.rows[k].rehearsal_date = d}) = 1
        /\ \A k \in DOMAIN fact_attendance.rows :
              /\ \E i \in DOMAIN dim_chorister :
                    dim_chorister[i].chorister_id
                        = fact_attendance.rows[k].chorister_id
              /\ fact_attendance.rows[k].rehearsal_date
                     \in RetainedDates(values[1])

\* C6: an eligible row whose normalized name is in the override table gives
\* one assignment row per override entry, in their order, each with is_active
\* TRUE and the entry's voice_part, valid_from and valid_to, and no row from
\* its Tag; every other eligible row gives one row, valid_from its joined_date
\* and valid_to empty; a row that is not eligible gives none.
C6_OverridesReplaceTheTagRow ==
    AfterAssignment =>
        \A s \in DOMAIN DataRows(values) :
            LET row == DataRows(values)[s]
                got == RowsFrom(dim_chorister_assignment, s)
                name == _normalize_name(_get_safe(row, ColumnIndex(values[1], Who)))
            IN IF ~Eligible(row, values[1]) THEN got = <<>>
               ELSE IF name \in DOMAIN CHORISTER_ASSIGNMENT_OVERRIDES
               THEN /\ Len(got) = Len(CHORISTER_ASSIGNMENT_OVERRIDES[name])
                    /\ \A k \in DOMAIN got :
                          /\ got[k].is_active = TrueCell
                          /\ got[k].voice_part
                                 = CHORISTER_ASSIGNMENT_OVERRIDES[name][k].voice_part
                          /\ got[k].valid_from
                                 = CHORISTER_ASSIGNMENT_OVERRIDES[name][k].valid_from
                          /\ got[k].valid_to
                                 = CHORISTER_ASSIGNMENT_OVERRIDES[name][k].valid_to
               ELSE /\ Len(got) = 1
                    /\ got[1].valid_from
                           = _get_safe(row, ColumnIndex(values[1], Joined))
                    /\ got[1].valid_to = <<>>

\* C6 is met: the assignments of a sheet with Maria Didurenko's row (two
\* override rows) and Ann's row (one row from the tag Alto) are built.
C6_OverrideAndTagRowsBuilt ==
    /\ pc = "dim_chorister_assignment"
    /\ values = <<IdentityHeader, MariaRow, AnnRow>>
    /\ Len(dim_chorister_assignment) = 3
    /\ dim_chorister_assignment[1].voice_part = <<"s", "o", "p", "r", "a", "n", "o">>
    /\ dim_chorister_assignment[3].voice_part = <<"a", "l", "t", "o">>

\* C7: no two rows of dim_chorister_assignment share an assignment_id.
C7_DistinctAssignmentIds ==
    AfterAssignment =>
        \A i, j \in DOMAIN dim_chorister_assignment :
            i # j => dim_chorister_assignment[i].assignment_id
                         # dim_chorister_assignment[j].assignment_id

\* C10: every row of fact_song_time carries the song_id that dim_song holds
\* for the raw row it was generated from.
C10_SongFactsCarryTheRowsSongId ==
    pc = "fact_song_time" =>
        \A k \in DOMAIN fact_song_time :
            \E s \in DOMAIN dim_song :
                /\ dim_song[s].src = fact_song_time[k].src
                /\ dim_song[s].song_id = fact_song_time[k].song_id

(***************************************************************************)
(* RAW sheets that differ in their date columns and attendance cells       *)
(***************************************************************************)

MaxDateCols == 2
MaxUnpivotRows == 2

Notes == <<"N", "o", "t", "e", "s">>
Bea == <<"B", "e", "a">>
Cid == <<"C", "i", "d">>
Dan == <<"D", "a", "n">>
Eve == <<"E", "v", "e">>

\* The headers a column from E on may have: a date in either format, or text
DateHeaders == {D160624, Iso160624, D230624, Notes}

\* Rows <<Tag, Joined, tgid, Who, cells from E on>>
UnpivotRows ==
    { <<Alto, D160624, <<>>, Ann, <<"2", ",", "5">>, <<>>, <<"2">>>>,
      \* the row ends at column E
      <<ExAlto, D160624, <<>>, Bea, <<" ">>>>,
      <<Tenor, D160624, <<>>, Cid, <<"1">>, <<"a", "b", "c">>, <<"1">>>>,
      <<Tenor, D160624, <<>>, Dan, <<"-", "1">>, <<"1">>, <<"1">>>>,
      <<Alto, D160624, <<>>, Eve, <<"1">>, <<"n", "a", "n">>, <<"1">>>>,
      <<Song, <<>>, <<>>, AveMaria, <<"3", "0">>, <<"x">>, <<>>>> }

InitUnpivot ==
    \E dates \in SeqsUpTo(DateHeaders, MaxDateCols),
       rows \in SeqsUpTo(UnpivotRows, MaxUnpivotRows) :
        InitBuild(<< <<Tag, Joined, Tgid, Who>> \o dates >> \o rows)

SpecUnpivot == InitUnpivot /\ [][NextBuild]_vars

\* build_fact_attendance_from_raw has been called
AttendanceCalled == pc \in {"fact_attendance", "fact_song_time", "failed"}

\* The date of the header cell at the 0-based idx
HeaderDate(header, idx) == _normalize_date_to_iso(_get_safe(header, idx))

\* The pairs of columns from E on whose headers are the same date
DuplicateDateColumns(header) ==
    {p \in (DATE_COLUMNS_START_INDEX..(Len(header) - 1))
              \X (DATE_COLUMNS_START_INDEX..(Len(header) - 1)) :
        /\ p[1] < p[2]
        /\ HeaderDate(header, p[1]) # <<>>
        /\ HeaderDate(header, p[1]) = HeaderDate(header, p[2])}

\* C4: when two columns at index 4 or more have the same normalized date (and
\* Tag, Joined and Who are in the header), build_fact_attendance_from_raw
\* raises an error that carries that date and the indices of two such columns,
\* and no fact row is returned.
C4_DuplicateDateIsFatal ==
    (/\ AttendanceCalled
     /\ HasRequired(values[1])
     /\ DuplicateDateColumns(values[1]) # {})
        => /\ pc = "failed"
           /\ fact_attendance.raised
           /\ fact_attendance.rows = <<>>
           /\ fact_attendance.error.kind = "duplicate_date"
           /\ <<fact_attendance.error.first_idx, fact_attendance.error.idx>>
                  \in DuplicateDateColumns(values[1])
           /\ fact_attendance.error.iso
                  = HeaderDate(values[1], fact_attendance.error.idx)

\* C4 is met: columns E "16.06.24" and F "2024-06-16" above a chorister's row
\* ended the run with the error naming 2024-06-16 and the indices 4 and 5.
C4_DuplicateDateRaised ==
    /\ pc = "failed"
    /\ values = << <<Tag, Joined, Tgid, Who, D160624, Iso160624>>,
                   <<Tenor, D160624, <<>>, Dan, <<"-", "1">>, <<"1">>, <<"1">>>> >>
    /\ fact_attendance.raised
    /\ fact_attendance.error.iso = Iso160624
    /\ fact_attendance.error.first_idx = 4
    /\ fact_attendance.error.idx = 5

\* The retained date columns <<idx, iso>> of a header without duplicates
RetainedColumns(header) ==
    {<<i, HeaderDate(header, i)>> :
        i \in {j \in DATE_COLUMNS_START_INDEX..(Len(header) - 1) :
                  HeaderDate(header, j) # <<>>}}

\* The places in values[1:] of the eligible chorister rows
EligibleRows == {s \in DOMAIN DataRows(values) :
                    Eligible(DataRows(values)[s], values[1])}

IsEmptyCell(raw) == raw = None \/ Strip(raw) = <<>>

\* The number a cell reads as, a comma taken for the decimal point
CellNumber(raw) == ParseFloat(Replace(Strip(raw), ",", "."))

\* The cell is a number that is not below zero (nan is not a number)
IsNonNegativeNumber(raw) ==
    CellNumber(raw).kind \in {"num", "inf"} /\ ~FloatLt0(CellNumber(raw))

\* The cell is neither empty nor a non-negative number
IsFatalCell(raw) == ~IsEmptyCell(raw) /\ ~IsNonNegativeNumber(raw)

\* The attendance cells <<src, <<idx, iso>>>> of the sheet
AttendanceCellsOfSheet == EligibleRows \X RetainedColumns(values[1])

RawCell(c) == CellOrNone(DataRows(values)[c[1]], c[2][1])

\* C5: above a header without duplicate dates, if some cell of an eligible
\* row under a retained date is neither empty nor a non-negative number, the
\* builder raises an error carrying the chorister_id, the date and the raw
\* value of such a cell; otherwise every such cell has exactly one row: hours
\* 0 and missed_flag 1 for an empty cell, the number and missed_flag 0 for a
\* non-negative number.
C5_EveryCellHasItsOutcome ==
    (AttendanceCalled /\ DuplicateDateColumns(values[1]) = {}) =>
        IF \E c \in AttendanceCellsOfSheet : IsFatalCell(RawCell(c))
        THEN /\ fact_attendance.raised
             /\ fact_attendance.error.kind = "hours"
             /\ \E c \in AttendanceCellsOfSheet :
                   /\ IsFatalCell(RawCell(c))
                   /\ fact_attendance.error.raw_value = RawCell(c)
                   /\ fact_attendance.error.rehearsal_date = c[2][2]
                   /\ fact_attendance.error.chorister_id
                          = ChoristerIdOfRow(DataRows(values)[c[1]], values[1],
                                             chorister_id_by_key)
        ELSE /\ ~fact_attendance.raised
             /\ \A c \in AttendanceCellsOfSheet :
                   \E k \in DOMAIN fact_attendance.rows :
                       /\ fact_attendance.rows[k].src = c[1]
                       /\ fact_attendance.rows[k].rehearsal_date = c[2][2]
                       /\ \A j \in DOMAIN fact_attendance.rows :
                             (/\ fact_attendance.rows[j].src = c[1]
                              /\ fact_attendance.rows[j].rehearsal_date = c[2][2])
                                => j = k
                       /\ IF IsEmptyCell(RawCell(c))
                          THEN /\ fact_attendance.rows[k].hours_attended = FloatZero
                               /\ fact_attendance.rows[k].missed_flag = 1
                          ELSE /\ fact_attendance.rows[k].hours_attended
                                      = CellNumber(RawCell(c))
                               /\ fact_attendance.rows[k].missed_flag = 0

(***************************************************************************)
(* _get_voice_part_for_date on its own: the arguments are drawn, the       *)
(* function is applied.                                                    *)
(***************************************************************************)

GetVoicePart ==
    /\ pc = "voice_part"
    /\ vp_out' = _get_voice_part_for_date(vp_in.chorister_id,
                                          vp_in.rehearsal_date_iso,
                                          vp_in.assignments)
    /\ pc' = "voice_part_returned"
    /\ UNCHANGED <<values, dim_chorister, chorister_id_by_key,
                   normalized_to_chorister_id, dim_chorister_assignment,
                   dim_song, song_ids_ordered, fact_attendance, fact_song_time,
                   mart_in, mart_attendance, mart_song_rehearsal,
                   mart_chorister_song, vp_in, clock>>
    /\ UNCHANGED <<db, start_db, run, reader, name_in, name_out>>

MaxAssignments == 2

Soprano == <<"s", "o", "p", "r", "a", "n", "o">>
D011024 == <<"0", "1", ".", "1", "0", ".", "2", "4">>
Iso021024 == <<"2", "0", "2", "4", "-", "1", "0", "-", "0", "2">>

Assignment(chorister_id, voice_part, valid_from, valid_to) ==
    [chorister_id |-> chorister_id, voice_part |-> voice_part,
     valid_from |-> valid_from, valid_to |-> valid_to]

\* The two override intervals of one chorister
SopranoInterval == Assignment(Ann, Soprano, D160624, D011024)
AltoInterval == Assignment(Ann, <<"a", "l", "t", "o">>, D021024, <<>>)
\* an interval whose valid_to is no date
BassInterval ==
    Assignment(Ann, <<"b", "a", "s", "s">>, D160624, <<"s", "o", "o", "n">>)

VoiceAssignments ==
    { SopranoInterval,
      AltoInterval,
      \* starts on the day AltoInterval does; the cell of valid_to is missing
      Assignment(Ann, <<"t", "e", "n", "o", "r">>, Iso021024, None),
      BassInterval,
      \* no valid_from
      Assignment(Ann, <<" ", "M", "e", "z", "z", "o">>, <<>>, <<>>),
      Assignment(Bea, <<"a", "l", "t", "o">>, D160624, <<>>),
      \* September 2024 only, the id typed with spaces around it
      Assignment(<<" ", "A", "n", "n", " ">>,
                 <<"b", "a", "r", "i", "t", "o", "n", "e">>,
                 <<"0", "1", ".", "0", "9", ".", "2", "4">>,
                 <<"3", "0", ".", "0", "9", ".", "2", "4">>) }

Iso150624 == <<"2", "0", "2", "4", "-", "0", "6", "-", "1", "5">>
Iso200724 == <<"2", "0", "2", "4", "-", "0", "7", "-", "2", "0">>
Iso150924 == <<"2", "0", "2", "4", "-", "0", "9", "-", "1", "5">>
Iso011024 == <<"2", "0", "2", "4", "-", "1", "0", "-", "0", "1">>
Iso151124 == <<"2", "0", "2", "4", "-", "1", "1", "-", "1", "5">>

VoiceDates ==
    {<<>>, Iso150624, Iso160624, Iso200724, Iso150924, Iso011024, Iso021024,
     Iso151124}

InitVoice ==
    /\ pc = "voice_part"
    /\ vp_in \in [chorister_id : {Ann, Bea},
                  rehearsal_date_iso : VoiceDates,
                  assignments : SeqsUpTo(VoiceAssignments, MaxAssignments)]
    /\ vp_out = Unset
    /\ values = Unset
    /\ dim_chorister = Unset
    /\ chorister_id_by_key = Unset
    /\ normalized_to_chorister_id = Unset
    /\ dim_chorister_assignment = Unset
    /\ dim_song = Unset
    /\ song_ids_ordered = Unset
    /\ fact_attendance = Returned(Unset)
    /\ fact_song_time = Unset
    /\ mart_in = Unset
    /\ mart_attendance = Returned(Unset)
    /\ mart_song_rehearsal = Unset
    /\ mart_chorister_song = Unset
    /\ clock = 0
    /\ db = Unset
    /\ start_db = Unset
    /\ run = Unset
    /\ reader = Unset
    /\ name_in = Unset
    /\ name_out = Unset

NextVoice == GetVoicePart

SpecVoice == InitVoice /\ [][NextVoice]_vars

\* A date YYYY-MM-DD as the number YYYYMMDD; 0 for the empty string
DateNumber(iso) == DigitsVal(SelectSeq(iso, IsDigit))

\* valid_to as the function reads it: the cell stripped, empty if missing
ValidToText(a) == IF a.valid_to = None THEN <<>> ELSE Strip(a.valid_to)

\* The interval a is of the chorister and starts on or before the date
StartsByDate(a, chorister_id, date) ==
    /\ Strip(a.chorister_id) = chorister_id
    /\ _normalize_date_to_iso(a.valid_from) # <<>>
    /\ DateNumber(_normalize_date_to_iso(a.valid_from)) <= DateNumber(date)

\* valid_from <= date and (valid_to empty or date <= valid_to)
QualifiesAsClaimed(a, chorister_id, date) ==
    /\ StartsByDate(a, chorister_id, date)
    /\ \/ ValidToText(a) = <<>>
       \/ /\ _normalize_date_to_iso(ValidToText(a)) # <<>>
          /\ DateNumber(date)
                 <= DateNumber(_normalize_date_to_iso(ValidToText(a)))

\* valid_from <= date and (valid_to empty or no date, or date <= valid_to)
Qualifies(a, chorister_id, date) ==
    /\ StartsByDate(a, chorister_id, date)
    /\ \/ ValidToText(a) = <<>>
       \/ _normalize_date_to_iso(ValidToText(a)) = <<>>
       \/ DateNumber(date)
              <= DateNumber(_normalize_date_to_iso(ValidToText(a)))

\* The voice parts of the intervals among those at Q that start last
LatestVoiceParts(assignments, Q) ==
    {Strip(assignments[i].voice_part) :
        i \in {k \in Q : \A j \in Q :
                  DateNumber(_normalize_date_to_iso(assignments[j].valid_from))
                      <= DateNumber(_normalize_date_to_iso(assignments[k].valid_from))}}

\* The result is the voice_part of an interval at Q with the greatest
\* valid_from, or the empty string if Q is empty
IsLatestOf(result, assignments, Q) ==
    IF Q = {} THEN result = <<>>
    ELSE result \in LatestVoiceParts(assignments, Q)

\* The example of the claim: soprano for 2024-07-20, alto for 2024-11-15,
\* nothing before 2024-06-16
ExampleHolds ==
    (vp_in.chorister_id = Ann
        /\ vp_in.assignments = <<SopranoInterval, AltoInterval>>)
      => /\ vp_in.rehearsal_date_iso = Iso200724 => vp_out = Soprano
         /\ vp_in.rehearsal_date_iso = Iso151124 => vp_out = <<"a", "l", "t", "o">>
         /\ DateNumber(vp_in.rehearsal_date_iso) < DateNumber(Iso160624)
               => vp_out = <<>>

BuildMartAttendance ==
    /\ pc = "marts"
    /\ mart_attendance' =
           build_mart_attendance(mart_in.dim_chorister,
                                 mart_in.dim_chorister_assignment,
                                 mart_in.fact_attendance)
    /\ pc' = IF mart_attendance'.raised THEN "marts_failed"
             ELSE "mart_attendance"
    /\ UNCHANGED <<values, dim_chorister, chorister_id_by_key,
                   normalized_to_chorister_id, dim_chorister_assignment,
                   dim_song, song_ids_ordered, fact_attendance, fact_song_time,
                   mart_in, mart_song_rehearsal, mart_chorister_song, vp_in,
                   vp_out, clock>>
    /\ UNCHANGED <<db, start_db, run, reader, name_in, name_out>>

\* main.py line 90
BuildMartSongRehearsal ==
    /\ pc = "mart_attendance"
    /\ mart_song_rehearsal' =
           build_mart_song_rehearsal(mart_in.dim_song, mart_in.fact_song_time)
    /\ pc' = "mart_song_rehearsal"
    /\ UNCHANGED <<values, dim_chorister, chorister_id_by_key,
                   normalized_to_chorister_id, dim_chorister_assignment,
                   dim_song, song_ids_ordered, fact_attendance, fact_song_time,
                   mart_in, mart_attendance, mart_chorister_song, vp_in,
                   vp_out, clock>>
    /\ UNCHANGED <<db, start_db, run, reader, name_in, name_out>>

\* The orders a set may be iterated in: the sequences holding each element once
Orders(set) ==
    {o \in [1..Cardinality(set) -> set] :
        \A i, j \in DOMAIN o : i # j => o[i] # o[j]}

\* The chorister ids of the attendance facts
FactChoristerIds(facts) == {_safe_str(facts[k].chorister_id) : k \in DOMAIN facts}

\* main.py lines 93-99; the sets of chorister ids are iterated in some order
BuildMartChoristerSong ==
    /\ pc = "mart_song_rehearsal"
    /\ \E set_order \in Orders(FactChoristerIds(mart_in.fact_attendance)) :
          mart_chorister_song' =
              build_mart_chorister_song(mart_in.dim_chorister,
                                        mart_in.dim_chorister_assignment,
                                        mart_in.dim_song,
                                        mart_in.fact_attendance,
                                        mart_in.fact_song_time, set_order)
    /\ pc' = "mart_chorister_song"
    /\ UNCHANGED <<values, dim_chorister, chorister_id_by_key,
                   normalized_to_chorister_id, dim_chorister_assignment,
                   dim_song, song_ids_ordered, fact_attendance, fact_song_time,
                   mart_in, mart_attendance, mart_song_rehearsal, vp_in,
                   vp_out, clock>>
    /\ UNCHANGED <<db, start_db, run, reader, name_in, name_out>>

NextMarts ==
    \/ BuildMartAttendance
    \/ BuildMartSongRehearsal
    \/ BuildMartChoristerSong

MaxFacts == 2
MaxSongFacts == 2

Iso090624 == <<"2", "0", "2", "4", "-", "0", "6", "-", "0", "9">>
Iso200624 == <<"2", "0", "2", "4", "-", "0", "6", "-", "2", "0">>
Zed == <<"Z", "e", "d">>

Chorister(chorister_id, joined_date) ==
    [chorister_id |-> chorister_id, full_name |-> chorister_id,
     joined_date |-> joined_date]

\* dim_chorister as read back: Ann joined on 16.06.24, Bea's joined_date is
\* empty, Cid's is no date, Dan joined on 2024-06-20
MartChoristers ==
    << Chorister(Ann, D160624), Chorister(Bea, <<>>),
       Chorister(Cid, <<"s", "o", "o", "n">>), Chorister(Dan, Iso200624) >>

MartAssignments == <<Assignment(Ann, <<"a", "l", "t", "o">>, D160624, <<>>)>>

MartSongs == <<[song_id |-> AveMaria, song_name |-> AveMaria]>>

AttendanceFact(rehearsal_date, chorister_id, hours_attended, missed_flag) ==
    [rehearsal_date |-> rehearsal_date, chorister_id |-> chorister_id,
     hours_attended |-> hours_attended, missed_flag |-> missed_flag]

AnnOn160624 == AttendanceFact(Iso160624, Ann, <<"2">>, <<"0">>)
DanOn160624 == AttendanceFact(Iso160624, Dan, <<"2">>, <<"0">>)
CidOn160624 == AttendanceFact(Iso160624, Cid, <<"1">>, <<"0">>)
\* hours_attended holds the text nan; Zed is not in dim_chorister
ZedOn160624 == AttendanceFact(Iso160624, Zed, <<"n", "a", "n">>, <<"0">>)

MartFacts ==
    { AnnOn160624,
      AttendanceFact(D160624, Bea, <<"1", ",", "5">>, <<"0">>),
      CidOn160624,
      AttendanceFact(Iso090624, Ann, <<>>, <<"1">>),
      DanOn160624,
      AttendanceFact(Iso230624, Dan, <<"1">>, <<"0">>),
      ZedOn160624 }

SongFact(rehearsal_date, song_id, minutes_spent) ==
    [rehearsal_date |-> rehearsal_date, song_id |-> song_id,
     minutes_spent |-> minutes_spent]

AveMariaOn160624 == SongFact(Iso160624, AveMaria, <<"3", "0">>)

MartSongFacts ==
    { AveMariaOn160624,
      SongFact(D160624, Gloria, <<"x">>),
      SongFact(Iso230624, AveMaria, <<"4", "5">>) }

InitMarts ==
    /\ pc = "marts"
    /\ \E facts \in SeqsUpTo(MartFacts, MaxFacts),
          song_facts \in SeqsUpTo(MartSongFacts, MaxSongFacts) :
          mart_in = [dim_chorister |-> MartChoristers,
                     dim_chorister_assignment |-> MartAssignments,
                     dim_song |-> MartSongs,
                     fact_attendance |-> facts,
                     fact_song_time |-> song_facts]
    /\ mart_attendance = Returned(Unset)
    /\ mart_song_rehearsal = Unset
    /\ mart_chorister_song = Unset
    /\ values = Unset
    /\ dim_chorister = Unset
    /\ chorister_id_by_key = Unset
    /\ normalized_to_chorister_id = Unset
    /\ dim_chorister_assignment = Unset
    /\ dim_song = Unset
    /\ song_ids_ordered = Unset
    /\ fact_attendance = Returned(Unset)
    /\ fact_song_time = Unset
    /\ vp_in = Unset
    /\ vp_out = Unset
    /\ clock = 0
    /\ db = Unset
    /\ start_db = Unset
    /\ run = Unset
    /\ reader = Unset
    /\ name_in = Unset
    /\ name_out = Unset

SpecMarts == InitMarts /\ [][NextMarts]_vars

\* build_mart_attendance has been called
MartAttendanceCalled ==
    pc \in {"mart_attendance", "mart_song_rehearsal", "mart_chorister_song",
            "marts_failed"}

\* joined_date of the chorister of an id: of the last row of dim_chorister
\* with that id, None if there is none
JoinedDateOf(chorister_id) ==
    IF \E i \in DOMAIN mart_in.dim_chorister :
          Strip(mart_in.dim_chorister[i].chorister_id) = chorister_id
    THEN mart_in.dim_chorister[
             CHOOSE i \in DOMAIN mart_in.dim_chorister :
                 /\ Strip(mart_in.dim_chorister[i].chorister_id) = chorister_id
                 /\ \A j \in DOMAIN mart_in.dim_chorister :
                       Strip(mart_in.dim_chorister[j].chorister_id) = chorister_id
                           => j <= i].joined_date
    ELSE None

JoinedDateOfFact(fa) == JoinedDateOf(Strip(fa.chorister_id))

\* joined_date is not empty
HasJoinedDate(raw) == raw # None /\ Strip(raw) # <<>>

\* joined_date is not empty and is no date
JoinedDateUnreadable(raw) ==
    HasJoinedDate(raw) /\ _normalize_date_to_iso(raw) = <<>>

\* C8: if the joined_date of the chorister of some attendance fact is not
\* empty and cannot be normalized, build_mart_attendance raises and returns no
\* rows; otherwise it returns one row per fact, whose available_flag is 1 if
\* the chorister's joined_date is not empty and rehearsal_date >= joined_date,
\* and 0 if not.
C8_AvailableFromJoinedDate ==
    MartAttendanceCalled =>
        IF \E k \in DOMAIN mart_in.fact_attendance :
              JoinedDateUnreadable(JoinedDateOfFact(mart_in.fact_attendance[k]))
        THEN /\ pc = "marts_failed"
             /\ mart_attendance.raised
             /\ mart_attendance.rows = <<>>
             /\ mart_attendance.error.kind = "joined_date"
             /\ \E k \in DOMAIN mart_in.fact_attendance :
                   /\ mart_attendance.error.chorister_id
                          = Strip(mart_in.fact_attendance[k].chorister_id)
                   /\ mart_attendance.error.raw_value
                          = JoinedDateOfFact(mart_in.fact_attendance[k])
                   /\ JoinedDateUnreadable(mart_attendance.error.raw_value)
        ELSE /\ ~mart_attendance.raised
             /\ Len(mart_attendance.rows) = Len(mart_in.fact_attendance)
             /\ \A k \in DOMAIN mart_attendance.rows :
                   mart_attendance.rows[k].available_flag
                     = IF /\ HasJoinedDate(
                                 JoinedDateOfFact(mart_in.fact_attendance[k]))
                          /\ DateNumber(_normalize_date_to_iso(
                                 mart_in.fact_attendance[k].rehearsal_date))
                               >= DateNumber(_normalize_date_to_iso(
                                      JoinedDateOfFact(mart_in.fact_attendance[k])))
                       THEN 1 ELSE 0

\* C8 is met: Ann, at the rehearsal of the day she joined, is available, and
\* Dan, who joined four days after it, is not.
C8_AvailableOnTheDayOfJoining ==
    /\ pc = "mart_attendance"
    /\ mart_in.fact_attendance = <<AnnOn160624, DanOn160624>>
    /\ mart_attendance.rows[1].available_flag = 1
    /\ mart_attendance.rows[2].available_flag = 0

\* The date of a fact as the marts key it
FactDate(f) == DateOrText(f.rehearsal_date)

\* The choristers with an attendance fact on d whose hours_attended > 0
AttendeesOn(d) ==
    {Strip(mart_in.fact_attendance[k].chorister_id) :
        k \in {i \in DOMAIN mart_in.fact_attendance :
                  /\ FactDate(mart_in.fact_attendance[i]) = d
                  /\ FloatGt0(_safe_float(
                         mart_in.fact_attendance[i].hours_attended, FloatZero))}}

\* The song-time facts on d
SongFactsOn(d) ==
    {k \in DOMAIN mart_in.fact_song_time :
        FactDate(mart_in.fact_song_time[k]) = d}

\* The dates of the facts and of the rows of mart_chorister_song
MartDates ==
    {FactDate(mart_in.fact_attendance[k]) : k \in DOMAIN mart_in.fact_attendance}
      \cup {FactDate(mart_in.fact_song_time[k]) :
               k \in DOMAIN mart_in.fact_song_time}
      \cup {mart_chorister_song[k].rehearsal_date :
               k \in DOMAIN mart_chorister_song}

\* C9: for every date d the rows of mart_chorister_song with rehearsal_date d
\* are as many as the choristers with hours_attended > 0 on d times the
\* song-time facts on d.
C9_RowsAreAttendeesTimesSongs ==
    pc = "mart_chorister_song" =>
        \A d \in MartDates :
            Cardinality({k \in DOMAIN mart_chorister_song :
                            mart_chorister_song[k].rehearsal_date = d})
                = Cardinality(AttendeesOn(d)) * Cardinality(SongFactsOn(d))

(***************************************************************************)
(* Headers that lack a required name.                                      *)
(***************************************************************************)

MaxHeaderRows == 2

\* What a column is called when it is not called Tag, Joined or Who
Voice == <<"V", "o", "i", "c", "e">>
Since == <<"S", "i", "n", "c", "e">>
Name == <<"N", "a", "m", "e">>

\* Headers of RAW without Tag, Joined or Who (the last also without tgid);
\* the two date columns hold the same date
HeadersLackingAName ==
    { <<Voice, Joined, Tgid, Who, D160624, Iso160624>>,
      <<Tag, Since, Tgid, Who, D160624, Iso160624>>,
      <<Tag, Joined, Tgid, Name, D160624, Iso160624>>,
      <<Voice, Since, Tgid, Who, D160624, Iso160624>>,
      <<Voice, Joined, Tgid, Name, D160624, Iso160624>>,
      <<Tag, Since, Tgid, Name, D160624, Iso160624>>,
      <<Voice, Since, Name>> }

HeaderRows ==
    { AnnRow,
      AveMariaRow,
      <<Alto, D160624, <<>>, Ann, <<"a", "b", "c">>, <<"-", "1">>>>,
      <<Song, <<>>, <<>>, Gloria, <<"x">>, <<"1", "0">>>> }

InitHeader ==
    \E header \in HeadersLackingAName, rows \in SeqsUpTo(HeaderRows, MaxHeaderRows) :
        InitBuild(<<header>> \o rows)

SpecHeader == InitHeader /\ [][NextBuild]_vars

\* C11: when the header lacks Tag, Joined or Who, every builder that has run
\* returned no data rows and none has raised.
C11_NoRowsWithoutRequiredNames ==
    /\ pc # "failed"
    /\ ~fact_attendance.raised
    /\ dim_chorister = <<>>
    /\ dim_chorister_assignment = <<>>
    /\ dim_song = <<>>
    /\ fact_attendance.rows = <<>>
    /\ fact_song_time = <<>>

(***************************************************************************)
(* The DB spreadsheet (gsheets.py).  A tab holds a table: its first row,   *)
(* the header, and the rows below it; a tab that was cleared, or has just  *)
(* been created, holds the empty table.  A cell is kept as it was written. *)
(***************************************************************************)

EmptySheet == [header |-> <<>>, rows |-> <<>>]
\* [header] + rows
Table(header, rows) == [header |-> header, rows |-> rows]

get_sheet_titles(d) == DOMAIN d

ensure_sheet_exists(d, title) ==
    IF title \in get_sheet_titles(d) THEN d ELSE Put(d, title, EmptySheet)

\* values().clear(range) of a range that spans the table
ClearValues(d, title) == [d EXCEPT ![title] = EmptySheet]
\* A variant in which the update leaves the range as it is
UpdateIgnored(d, title, table) == d
\* values().update(range, body) on the cleared range
UpdateValues(d, title, table) == [d EXCEPT ![title] = table]
\* What get_values gives of a tab; a tab that is not there has no values
TabOf(d, title) == IF title \in DOMAIN d THEN d[title] ELSE EmptySheet

\* append_rows(range_a1="etl_log!A:H", rows): the rows go below the last row;
\* on an empty tab the first of them is the first row of the tab
AppendRows(table, rows) ==
    IF table.header = <<>> /\ table.rows = <<>>
    THEN Table(Head(rows), Tail(rows))
    ELSE Table(table.header, table.rows \o rows)

append_rows(d, title, rows) == [d EXCEPT ![title] = AppendRows(d[title], rows)]

DIM_CHORISTER_HEADER ==
    <<"chorister_id", "tgid", "full_name", "joined_date", "created_at",
      "updated_at">>
DIM_CHORISTER_ASSIGNMENT_HEADER ==
    <<"assignment_id", "chorister_id", "voice_part", "is_active", "valid_from",
      "valid_to">>
DIM_SONG_HEADER == <<"song_id", "song_name", "created_at", "updated_at">>
FACT_ATTENDANCE_HEADER ==
    <<"rehearsal_date", "chorister_id", "hours_attended", "missed_flag",
      "load_ts">>
FACT_SONG_TIME_HEADER ==
    <<"rehearsal_date", "song_id", "minutes_spent", "load_ts">>
MART_ATTENDANCE_HEADER ==
    <<"rehearsal_date", "chorister_id", "full_name", "joined_date",
      "voice_part", "hours_attended", "attended_flag", "missed_flag",
      "available_flag">>
MART_SONG_REHEARSAL_HEADER ==
    <<"rehearsal_date", "song_id", "song_name", "minutes_spent", "hours_spent">>
MART_CHORISTER_SONG_HEADER ==
    <<"rehearsal_date", "chorister_id", "full_name", "joined_date",
      "voice_part", "song_id", "song_name", "minutes_spent", "hours_spent">>
\* main.py lines 141-145
MembersTable ==
    Table(<<"member_id", "full_name", "is_active">>,
          << <<"test_member_1", "Test Member", "TRUE">> >>)
\* main.py lines 279-288
ETL_LOG_HEADER ==
    <<"run_ts", "status", "rows_dim_chorister", "rows_dim_chorister_assignment",
      "rows_dim_song", "rows_fact_attendance", "rows_fact_song_time",
      "error_message">>

REQUIRED_TABS_FOR_MARTS ==
    <<"dim_chorister", "dim_chorister_assignment", "dim_song",
      "fact_attendance", "fact_song_time">>

\* The text a number cell shows: the digits ds of the mantissa, times 10^e
RECURSIVE Zeros(_)
Zeros(n) == IF n <= 0 THEN <<>> ELSE <<"0">> \o Zeros(n - 1)

DecimalText(ds, e) ==
    IF e >= 0 THEN ds \o Zeros(e)
    ELSE IF Len(ds) > -e
    THEN Take(ds, Len(ds) + e) \o <<".">> \o Drop(ds, Len(ds) + e)
    ELSE <<"0", ".">> \o Zeros(-e - Len(ds)) \o ds

FloatText(v) ==
    IF v.kind = "nan" THEN <<"n", "a", "n">>
    ELSE (IF v.neg THEN <<"-">> ELSE <<>>)
            \o (IF v.kind = "inf" THEN <<"i", "n", "f">>
                ELSE IF v.m = 0 THEN <<"0">>
                ELSE DecimalText(NatStr(v.m), v.e))

\* read_table(..., "fact_attendance"): one dict per row below the header, the
\* number cells as the text they show
ReadFactAttendance(table) ==
    [k \in DOMAIN table.rows |->
        [rehearsal_date |-> table.rows[k].rehearsal_date,
         chorister_id |-> table.rows[k].chorister_id,
         hours_attended |-> FloatText(table.rows[k].hours_attended),
         missed_flag |-> NatStr(table.rows[k].missed_flag),
         load_ts |-> table.rows[k].load_ts]]

\* read_table(..., "fact_song_time")
ReadFactSongTime(table) ==
    [k \in DOMAIN table.rows |->
        [rehearsal_date |-> table.rows[k].rehearsal_date,
         song_id |-> table.rows[k].song_id,
         minutes_spent |-> FloatText(table.rows[k].minutes_spent),
         load_ts |-> table.rows[k].load_ts]]

\* read_table of a table of text cells
read_table(d, title) == d[title].rows

\* main.py lines 79-83
ReadTables(d) ==
    [dim_chorister |-> read_table(d, "dim_chorister"),
     dim_chorister_assignment |-> read_table(d, "dim_chorister_assignment"),
     dim_song |-> read_table(d, "dim_song"),
     fact_attendance |-> ReadFactAttendance(d["fact_attendance"]),
     fact_song_time |-> ReadFactSongTime(d["fact_song_time"])]

\* A variant that reports the first missing tab only
FirstMissingTab(d) ==
    IF \A i \in DOMAIN REQUIRED_TABS_FOR_MARTS :
           REQUIRED_TABS_FOR_MARTS[i] \in get_sheet_titles(d)
    THEN <<>>
    ELSE <<REQUIRED_TABS_FOR_MARTS[
               CHOOSE i \in DOMAIN REQUIRED_TABS_FOR_MARTS :
                   /\ REQUIRED_TABS_FOR_MARTS[i] \notin get_sheet_titles(d)
                   /\ \A j \in 1..(i - 1) :
                          REQUIRED_TABS_FOR_MARTS[j] \in get_sheet_titles(d)]>>

\* main.py line 72: the required tabs that are not among the titles
MissingTabs(d) ==
    SelectSeq(REQUIRED_TABS_FOR_MARTS, LAMBDA t : t \notin get_sheet_titles(d))

(***************************************************************************)
(* main() (main.py lines 103-311): each table is built, then its tab is    *)
(* made sure of, cleared and written; the marts are built from the tabs    *)
(* read back; an exception of the try block ends the builds, and the run   *)
(* is logged.  run.tab is the tab main() is writing.                       *)
(***************************************************************************)

\* main's locals at line 119
NewRun(runs) ==
    [status |-> "success", error |-> NoError, tab |-> "", runs |-> runs]

\* The table main() passes to the write of a tab
Written(tab) ==
    CASE tab = "members" -> MembersTable
      [] tab = "dim_chorister" -> Table(DIM_CHORISTER_HEADER, dim_chorister)
      [] tab = "dim_chorister_assignment" ->
             Table(DIM_CHORISTER_ASSIGNMENT_HEADER, dim_chorister_assignment)
      [] tab = "dim_song" -> Table(DIM_SONG_HEADER, dim_song)
      [] tab = "fact_attendance" ->
             Table(FACT_ATTENDANCE_HEADER, fact_attendance.rows)
      [] tab = "fact_song_time" -> Table(FACT_SONG_TIME_HEADER, fact_song_time)
      [] tab = "mart_attendance" ->
             Table(MART_ATTENDANCE_HEADER, mart_attendance.rows)
      [] tab = "mart_song_rehearsal" ->
             Table(MART_SONG_REHEARSAL_HEADER, mart_song_rehearsal)
      [] tab = "mart_chorister_song" ->
             Table(MART_CHORISTER_SONG_HEADER, mart_chorister_song)

\* ensure_sheet_exists, then the clear of overwrite_range (gsheets.py lines
\* 85-88) or of write_table_overwrite (lines 147-156)
Cleared(d, title) == ClearValues(ensure_sheet_exists(d, title), title)

\* main.py lines 135-151, up to the clear of members
MainMembers ==
    /\ pc = "main"
    /\ db' = Cleared(db, "members")
    /\ run' = [run EXCEPT !.tab = "members"]
    /\ pc' = "cleared"
    /\ UNCHANGED <<values, dim_chorister, chorister_id_by_key,
                   normalized_to_chorister_id, dim_chorister_assignment,
                   dim_song, song_ids_ordered, fact_attendance, fact_song_time,
                   mart_in, mart_attendance, mart_song_rehearsal,
                   mart_chorister_song, vp_in, vp_out, clock, start_db,
                   reader, name_in, name_out>>

\* The update of overwrite_range (gsheets.py lines 89-94)
UpdateRange ==
    /\ pc = "cleared"
    /\ db' = UpdateValues(db, run.tab, Written(run.tab))
    /\ pc' = "written"
    /\ UNCHANGED <<values, dim_chorister, chorister_id_by_key,
                   normalized_to_chorister_id, dim_chorister_assignment,
                   dim_song, song_ids_ordered, fact_attendance, fact_song_time,
                   mart_in, mart_attendance, mart_song_rehearsal,
                   mart_chorister_song, vp_in, vp_out, clock, start_db, run,
                   reader, name_in, name_out>>

\* main.py lines 154-174, up to the clear of dim_chorister
MainDimChorister ==
    /\ pc = "written" /\ run.tab = "members"
    /\ \E built \in {build_dim_chorister_from_raw(values, clock)} :
          /\ dim_chorister' = built.rows
          /\ chorister_id_by_key' = built.chorister_id_by_key
          /\ normalized_to_chorister_id' = built.normalized_to_chorister_id
    /\ db' = Cleared(db, "dim_chorister")
    /\ run' = [run EXCEPT !.tab = "dim_chorister"]
    /\ pc' = "cleared"
    /\ UNCHANGED <<values, dim_chorister_assignment, dim_song,
                   song_ids_ordered, fact_attendance, fact_song_time, mart_in,
                   mart_attendance, mart_song_rehearsal, mart_chorister_song,
                   vp_in, vp_out, clock, start_db, reader, name_in, name_out>>

\* main.py lines 177-194, up to the clear of dim_chorister_assignment
MainDimChoristerAssignment ==
    /\ pc = "written" /\ run.tab = "dim_chorister"
    /\ dim_chorister_assignment' =
           build_dim_chorister_assignment_from_raw(
               values, chorister_id_by_key, normalized_to_chorister_id)
    /\ db' = Cleared(db, "dim_chorister_assignment")
    /\ run' = [run EXCEPT !.tab = "dim_chorister_assignment"]
    /\ pc' = "cleared"
    /\ UNCHANGED <<values, dim_chorister, chorister_id_by_key,
                   normalized_to_chorister_id, dim_song, song_ids_ordered,
                   fact_attendance, fact_song_time, mart_in, mart_attendance,
                   mart_song_rehearsal, mart_chorister_song, vp_in, vp_out,
                   clock, start_db, reader, name_in, name_out>>

\* main.py lines 197-210, up to the clear of dim_song
MainDimSong ==
    /\ pc = "written" /\ run.tab = "dim_chorister_assignment"
    /\ \E built \in {build_dim_song_from_raw(values, clock)} :
          /\ dim_song' = built.rows
          /\ song_ids_ordered' = built.song_ids_ordered
    /\ db' = Cleared(db, "dim_song")
    /\ run' = [run EXCEPT !.tab = "dim_song"]
    /\ pc' = "cleared"
    /\ UNCHANGED <<values, dim_chorister, chorister_id_by_key,
                   normalized_to_chorister_id, dim_chorister_assignment,
                   fact_attendance, fact_song_time, mart_in, mart_attendance,
                   mart_song_rehearsal, mart_chorister_song, vp_in, vp_out,
                   clock, start_db, reader, name_in, name_out>>

\* main.py lines 213-228, up to the clear of fact_attendance; a RuntimeError
\* of the builder leaves the try block before the tab is touched
MainFactAttendance ==
    /\ pc = "written" /\ run.tab = "dim_song"
    /\ fact_attendance' =
           build_fact_attendance_from_raw(values, chorister_id_by_key, clock)
    /\ IF fact_attendance'.raised
       THEN /\ pc' = "except"
            /\ run' = [run EXCEPT !.error = fact_attendance'.error]
            /\ db' = db
       ELSE /\ pc' = "cleared"
            /\ run' = [run EXCEPT !.tab = "fact_attendance"]
            /\ db' = Cleared(db, "fact_attendance")
    /\ UNCHANGED <<values, dim_chorister, chorister_id_by_key,
                   normalized_to_chorister_id, dim_chorister_assignment,
                   dim_song, song_ids_ordered, fact_song_time, mart_in,
                   mart_attendance, mart_song_rehearsal, mart_chorister_song,
                   vp_in, vp_out, clock, start_db, reader, name_in, name_out>>

\* main.py lines 231-246, up to the clear of fact_song_time
MainFactSongTime ==
    /\ pc = "written" /\ run.tab = "fact_attendance"
    /\ fact_song_time' =
           build_fact_song_time_from_raw(values, song_ids_ordered, clock)
    /\ db' = Cleared(db, "fact_song_time")
    /\ run' = [run EXCEPT !.tab = "fact_song_time"]
    /\ pc' = "cleared"
    /\ UNCHANGED <<values, dim_chorister, chorister_id_by_key,
                   normalized_to_chorister_id, dim_chorister_assignment,
                   dim_song, song_ids_ordered, fact_attendance, mart_in,
                   mart_attendance, mart_song_rehearsal, mart_chorister_song,
                   vp_in, vp_out, clock, start_db, reader, name_in, name_out>>

\* The RuntimeError of build_marts for missing tabs (main.py lines 73-77)
MissingError(missing) == [kind |-> "missing_tabs", tabs |-> missing]

\* A variant in which build_marts is called once dim_song is written, before
\* the fact tables are built
BuildMartsEarly ==
    /\ pc = "written" /\ run.tab = "dim_song"
    /\ IF MissingTabs(db) # <<>>
       THEN /\ pc' = "except"
            /\ run' = [run EXCEPT !.error = MissingError(MissingTabs(db))]
            /\ UNCHANGED <<db, mart_in, mart_attendance>>
       ELSE /\ mart_in' = ReadTables(db)
            /\ mart_attendance' =
                   build_mart_attendance(mart_in'.dim_chorister,
                                         mart_in'.dim_chorister_assignment,
                                         mart_in'.fact_attendance)
            /\ IF mart_attendance'.raised
               THEN /\ pc' = "except"
                    /\ run' = [run EXCEPT !.error = mart_attendance'.error]
                    /\ db' = db
               ELSE /\ pc' = "table_cleared"
                    /\ run' = [run EXCEPT !.tab = "mart_attendance"]
                    /\ db' = Cleared(db, "mart_attendance")
    /\ UNCHANGED <<values, dim_chorister, chorister_id_by_key,
                   normalized_to_chorister_id, dim_chorister_assignment,
                   dim_song, song_ids_ordered, fact_attendance, fact_song_time,
                   mart_song_rehearsal, mart_chorister_song, vp_in, vp_out,
                   clock, start_db, reader, name_in, name_out>>

\* build_marts, main.py lines 71-88, up to the clear of mart_attendance: a
\* missing tab, or a RuntimeError of build_mart_attendance, ends it
BuildMarts ==
    /\ pc = "written" /\ run.tab = "fact_song_time"
    /\ IF MissingTabs(db) # <<>>
       THEN /\ pc' = "except"
            /\ run' = [run EXCEPT !.error = MissingError(MissingTabs(db))]
            /\ UNCHANGED <<db, mart_in, mart_attendance>>
       ELSE /\ mart_in' = ReadTables(db)
            /\ mart_attendance' =
                   build_mart_attendance(mart_in'.dim_chorister,
                                         mart_in'.dim_chorister_assignment,
                                         mart_in'.fact_attendance)
            /\ IF mart_attendance'.raised
               THEN /\ pc' = "except"
                    /\ run' = [run EXCEPT !.error = mart_attendance'.error]
                    /\ db' = db
               ELSE /\ pc' = "table_cleared"
                    /\ run' = [run EXCEPT !.tab = "mart_attendance"]
                    /\ db' = Cleared(db, "mart_attendance")
    /\ UNCHANGED <<values, dim_chorister, chorister_id_by_key,
                   normalized_to_chorister_id, dim_chorister_assignment,
                   dim_song, song_ids_ordered, fact_attendance, fact_song_time,
                   mart_song_rehearsal, mart_chorister_song, vp_in, vp_out,
                   clock, start_db, reader, name_in, name_out>>

\* The update of write_table_overwrite (gsheets.py lines 157-164)
UpdateTable ==
    /\ pc = "table_cleared"
    /\ db' = UpdateValues(db, run.tab, Written(run.tab))
    /\ pc' = "table_written"
    /\ UNCHANGED <<values, dim_chorister, chorister_id_by_key,
                   normalized_to_chorister_id, dim_chorister_assignment,
                   dim_song, song_ids_ordered, fact_attendance, fact_song_time,
                   mart_in, mart_attendance, mart_song_rehearsal,
                   mart_chorister_song, vp_in, vp_out, clock, start_db, run,
                   reader, name_in, name_out>>

\* build_marts, main.py lines 90-91, up to the clear of mart_song_rehearsal
MartSongRehearsal ==
    /\ pc = "table_written" /\ run.tab = "mart_attendance"
    /\ mart_song_rehearsal' =
           build_mart_song_rehearsal(mart_in.dim_song, mart_in.fact_song_time)
    /\ db' = Cleared(db, "mart_song_rehearsal")
    /\ run' = [run EXCEPT !.tab = "mart_song_rehearsal"]
    /\ pc' = "table_cleared"
    /\ UNCHANGED <<values, dim_chorister, chorister_id_by_key,
                   normalized_to_chorister_id, dim_chorister_assignment,
                   dim_song, song_ids_ordered, fact_attendance, fact_song_time,
                   mart_in, mart_attendance, mart_chorister_song, vp_in,
                   vp_out, clock, start_db, reader, name_in, name_out>>

\* build_marts, main.py lines 93-100, up to the clear of mart_chorister_song;
\* the sets of chorister ids are iterated in some order
MartChoristerSong ==
    /\ pc = "table_written" /\ run.tab = "mart_song_rehearsal"
    /\ \E set_order \in Orders(FactChoristerIds(mart_in.fact_attendance)) :
          mart_chorister_song' =
              build_mart_chorister_song(mart_in.dim_chorister,
                                        mart_in.dim_chorister_assignment,
                                        mart_in.dim_song,
                                        mart_in.fact_attendance,
                                        mart_in.fact_song_time, set_order)
    /\ db' = Cleared(db, "mart_chorister_song")
    /\ run' = [run EXCEPT !.tab = "mart_chorister_song"]
    /\ pc' = "table_cleared"
    /\ UNCHANGED <<values, dim_chorister, chorister_id_by_key,
                   normalized_to_chorister_id, dim_chorister_assignment,
                   dim_song, song_ids_ordered, fact_attendance, fact_song_time,
                   mart_in, mart_attendance, mart_song_rehearsal, vp_in,
                   vp_out, clock, start_db, reader, name_in, name_out>>

\* The try block is left without an exception (main.py lines 249-256)
Finished ==
    /\ pc = "table_written" /\ run.tab = "mart_chorister_song"
    /\ pc' = "log"
    /\ UNCHANGED <<values, dim_chorister, chorister_id_by_key,
                   normalized_to_chorister_id, dim_chorister_assignment,
                   dim_song, song_ids_ordered, fact_attendance, fact_song_time,
                   mart_in, mart_attendance, mart_song_rehearsal,
                   mart_chorister_song, vp_in, vp_out, clock, db, start_db,
                   run, reader, name_in, name_out>>

\* except Exception (main.py lines 257-261)
Except ==
    /\ pc = "except"
    /\ run' = [run EXCEPT !.status = "failed"]
    /\ pc' = "log"
    /\ UNCHANGED <<values, dim_chorister, chorister_id_by_key,
                   normalized_to_chorister_id, dim_chorister_assignment,
                   dim_song, song_ids_ordered, fact_attendance, fact_song_time,
                   mart_in, mart_attendance, mart_song_rehearsal,
                   mart_chorister_song, vp_in, vp_out, clock, db, start_db,
                   reader, name_in, name_out>>

\* The record of the run (main.py lines 293-305); a rows_ count is the number
\* of data rows of a table that was built, 0 of one that was not
LogRecord(run_ts) ==
    [run_ts |-> run_ts, status |-> run.status,
     rows_dim_chorister |-> Len(dim_chorister),
     rows_dim_chorister_assignment |-> Len(dim_chorister_assignment),
     rows_dim_song |-> Len(dim_song),
     rows_fact_attendance |-> Len(fact_attendance.rows),
     rows_fact_song_time |-> Len(fact_song_time),
     error_message |-> run.error]

\* A variant that puts the header before every record
RowsWithHeader(existing, record) == <<ETL_LOG_HEADER, record>>

\* rows_to_append (main.py lines 271-305): the header first if cell A1 of
\* etl_log is empty
RowsToAppend(existing, record) ==
    IF existing.header = <<>> THEN <<ETL_LOG_HEADER, record>> ELSE <<record>>

\* main.py lines 264-311
EtlLog ==
    /\ pc = "log"
    /\ db' = append_rows(ensure_sheet_exists(db, "etl_log"), "etl_log",
                         RowsToAppend(TabOf(db, "etl_log"), LogRecord(clock)))
    /\ run' = [run EXCEPT !.runs = run.runs + 1]
    /\ pc' = "done"
    /\ UNCHANGED <<values, dim_chorister, chorister_id_by_key,
                   normalized_to_chorister_id, dim_chorister_assignment,
                   dim_song, song_ids_ordered, fact_attendance, fact_song_time,
                   mart_in, mart_attendance, mart_song_rehearsal,
                   mart_chorister_song, vp_in, vp_out, clock, start_db,
                   reader, name_in, name_out>>

NextMain ==
    \/ MainMembers
    \/ UpdateRange
    \/ MainDimChorister
    \/ MainDimChoristerAssignment
    \/ MainDimSong
    \/ MainFactAttendance
    \/ MainFactSongTime
    \/ BuildMarts
    \/ UpdateTable
    \/ MartSongRehearsal
    \/ MartChoristerSong
    \/ Finished
    \/ Except
    \/ EtlLog

\* The state main() starts in: RAW is vals, the DB spreadsheet is d
InitMain(vals, d) ==
    /\ pc = "main"
    /\ values = vals
    /\ db = d
    /\ start_db = d
    /\ run = NewRun(0)
    /\ reader = Unset
    /\ name_in = Unset
    /\ name_out = Unset
    /\ clock = 1
    /\ dim_chorister = Unset
    /\ chorister_id_by_key = Unset
    /\ normalized_to_chorister_id = Unset
    /\ dim_chorister_assignment = Unset
    /\ dim_song = Unset
    /\ song_ids_ordered = Unset
    /\ fact_attendance = Returned(Unset)
    /\ fact_song_time = Unset
    /\ mart_in = Unset
    /\ mart_attendance = Returned(Unset)
    /\ mart_song_rehearsal = Unset
    /\ mart_chorister_song = Unset
    /\ vp_in = Unset
    /\ vp_out = Unset

(***************************************************************************)
(* Runs of main() on one RAW sheet, one after the other.                   *)
(***************************************************************************)

MaxRuns == 2
MaxRunRows == 3

\* main() is started again, later, on the RAW it had
Rerun ==
    /\ pc = "done"
    /\ run.runs < MaxRuns
    /\ pc' = "main"
    /\ clock' = clock + 1
    /\ start_db' = db
    /\ run' = NewRun(run.runs)
    /\ reader' = Unset
    /\ dim_chorister' = Unset
    /\ chorister_id_by_key' = Unset
    /\ normalized_to_chorister_id' = Unset
    /\ dim_chorister_assignment' = Unset
    /\ dim_song' = Unset
    /\ song_ids_ordered' = Unset
    /\ fact_attendance' = Returned(Unset)
    /\ fact_song_time' = Unset
    /\ mart_in' = Unset
    /\ mart_attendance' = Returned(Unset)
    /\ mart_song_rehearsal' = Unset
    /\ mart_chorister_song' = Unset
    /\ UNCHANGED <<values, db, vp_in, vp_out, name_in, name_out>>

NextRuns ==
    \/ NextMain
    \/ Rerun

\* Rows of RAW: Ann and Bea attend; Cid's cell is no number (fact_attendance
\* raises); Dan's Joined is no date (mart_attendance raises); a song
BeaRow == <<Tenor, D160624, <<>>, Bea, <<"1", ",", "5">>>>
CidRow == <<Alto, D160624, <<>>, Cid, <<"a", "b", "c">>>>
DanRow == <<Alto, <<"s", "o", "o", "n">>, <<>>, Dan, <<"1">>>>

RunRows == {AnnRow, BeaRow, CidRow, DanRow, AveMariaRow}

\* The tabs main() overwrites with a table it built
BuiltTabs ==
    {"dim_chorister", "dim_chorister_assignment", "dim_song",
     "fact_attendance", "fact_song_time", "mart_attendance",
     "mart_song_rehearsal", "mart_chorister_song"}

\* A spreadsheet with no tab yet
NewDb == EmptyDict

\* The record of a run at time 0 that built no data row
OldRecord ==
    [run_ts |-> 0, status |-> "success", rows_dim_chorister |-> 0,
     rows_dim_chorister_assignment |-> 0, rows_dim_song |-> 0,
     rows_fact_attendance |-> 0, rows_fact_song_time |-> 0,
     error_message |-> NoError]

\* The spreadsheet after a run on a RAW sheet that had no data row: every
\* table holds its header, etl_log the record of that run
OldDb ==
    [members |-> MembersTable,
     dim_chorister |-> Table(DIM_CHORISTER_HEADER, <<>>),
     dim_chorister_assignment |-> Table(DIM_CHORISTER_ASSIGNMENT_HEADER, <<>>),
     dim_song |-> Table(DIM_SONG_HEADER, <<>>),
     fact_attendance |-> Table(FACT_ATTENDANCE_HEADER, <<>>),
     fact_song_time |-> Table(FACT_SONG_TIME_HEADER, <<>>),
     mart_attendance |-> Table(MART_ATTENDANCE_HEADER, <<>>),
     mart_song_rehearsal |-> Table(MART_SONG_REHEARSAL_HEADER, <<>>),
     mart_chorister_song |-> Table(MART_CHORISTER_SONG_HEADER, <<>>),
     etl_log |-> Table(ETL_LOG_HEADER, <<OldRecord>>)]

InitRuns ==
    \E rows \in SeqsUpTo(RunRows, MaxRunRows), d \in {NewDb, OldDb} :
        InitMain(<<IdentityHeader>> \o rows, d)

SpecRuns == InitRuns /\ [][NextRuns]_vars

\* A run after the first has ended
RerunDone == pc = "done" /\ run.runs >= 2

\* C12: when main() has run again on the same RAW, every dimension, fact and
\* mart table holds what it held after the run before: the same rows in the
\* same order with the same values, created_at, updated_at and load_ts too.
C12_RerunLeavesTablesAsTheyWere ==
    RerunDone => \A t \in BuiltTabs : TabOf(db, t) = TabOf(start_db, t)

(***************************************************************************)
(* A reader of the DB spreadsheet while main() runs.                       *)
(***************************************************************************)

MaxReaderRows == 2

\* Somebody reads the values of one tab
Read ==
    /\ pc # "done"
    /\ \E t \in BuiltTabs : reader' = [tab |-> t, content |-> TabOf(db, t)]
    /\ UNCHANGED <<pc, values, dim_chorister, chorister_id_by_key,
                   normalized_to_chorister_id, dim_chorister_assignment,
                   dim_song, song_ids_ordered, fact_attendance, fact_song_time,
                   mart_in, mart_attendance, mart_song_rehearsal,
                   mart_chorister_song, vp_in, vp_out, clock, db, start_db,
                   run, name_in, name_out>>

NextReader ==
    \/ NextMain
    \/ Read

InitReader ==
    \E rows \in SeqsUpTo(RunRows, MaxReaderRows), d \in {NewDb, OldDb} :
        InitMain(<<IdentityHeader>> \o rows, d)

SpecReader == InitReader /\ [][NextReader]_vars

\* C13: what a reader got of a tab is the table the tab held when the run
\* started, or the table this run writes to it.
C13_ReaderSeesOldOrNew ==
    reader # Unset =>
        \/ reader.content = TabOf(start_db, reader.tab)
        \/ reader.content = Written(reader.tab)

(***************************************************************************)
(* build_marts on a spreadsheet that may lack some of its tabs.            *)
(***************************************************************************)

MartTabs == {"mart_attendance", "mart_song_rehearsal", "mart_chorister_song"}

\* The spreadsheet after a run on the sheet with rows Ann, Bea, Ave Maria
FilledDb ==
    [members |-> MembersTable,
     dim_chorister |->
         Table(DIM_CHORISTER_HEADER,
               build_dim_chorister_from_raw(
                   <<IdentityHeader, AnnRow, BeaRow, AveMariaRow>>, 1).rows),
     dim_chorister_assignment |->
         Table(DIM_CHORISTER_ASSIGNMENT_HEADER,
               build_dim_chorister_assignment_from_raw(
                   <<IdentityHeader, AnnRow, BeaRow, AveMariaRow>>,
                   build_dim_chorister_from_raw(
                       <<IdentityHeader, AnnRow, BeaRow, AveMariaRow>>,
                       1).chorister_id_by_key,
                   build_dim_chorister_from_raw(
                       <<IdentityHeader, AnnRow, BeaRow, AveMariaRow>>,
                       1).normalized_to_chorister_id)),
     dim_song |->
         Table(DIM_SONG_HEADER,
               build_dim_song_from_raw(
                   <<IdentityHeader, AnnRow, BeaRow, AveMariaRow>>, 1).rows),
     fact_attendance |->
         Table(FACT_ATTENDANCE_HEADER,
               build_fact_attendance_from_raw(
                   <<IdentityHeader, AnnRow, BeaRow, AveMariaRow>>,
                   build_dim_chorister_from_raw(
                       <<IdentityHeader, AnnRow, BeaRow, AveMariaRow>>,
                       1).chorister_id_by_key, 1).rows),
     fact_song_time |->
         Table(FACT_SONG_TIME_HEADER,
               build_fact_song_time_from_raw(
                   <<IdentityHeader, AnnRow, BeaRow, AveMariaRow>>,
                   build_dim_song_from_raw(
                       <<IdentityHeader, AnnRow, BeaRow, AveMariaRow>>,
                       1).song_ids_ordered, 1)),
     mart_attendance |-> Table(MART_ATTENDANCE_HEADER, <<>>),
     mart_song_rehearsal |-> Table(MART_SONG_REHEARSAL_HEADER, <<>>),
     mart_chorister_song |-> Table(MART_CHORISTER_SONG_HEADER, <<>>),
     etl_log |-> Table(ETL_LOG_HEADER, <<OldRecord>>)]

NextBuildMarts ==
    \/ BuildMarts
    \/ UpdateTable
    \/ MartSongRehearsal
    \/ MartChoristerSong

\* build_marts is about to be called; any of the tabs may be absent
InitBuildMarts ==
    \E base \in {OldDb, FilledDb}, present \in SUBSET DOMAIN OldDb :
        /\ db = [t \in present |-> base[t]]
        /\ start_db = db
        /\ pc = "written"
        /\ run = [NewRun(0) EXCEPT !.tab = "fact_song_time"]
        /\ reader = Unset
        /\ name_in = Unset
        /\ name_out = Unset
        /\ clock = 1
        /\ values = <<>>
        /\ dim_chorister = Unset
        /\ chorister_id_by_key = Unset
        /\ normalized_to_chorister_id = Unset
        /\ dim_chorister_assignment = Unset
        /\ dim_song = Unset
        /\ song_ids_ordered = Unset
        /\ fact_attendance = Unset
        /\ fact_song_time = Unset
        /\ mart_in = Unset
        /\ mart_attendance = Unset
        /\ mart_song_rehearsal = Unset
        /\ mart_chorister_song = Unset
        /\ vp_in = Unset
        /\ vp_out = Unset

SpecBuildMarts == InitBuildMarts /\ [][NextBuildMarts]_vars

RequiredTabs == {REQUIRED_TABS_FOR_MARTS[i] : i \in DOMAIN REQUIRED_TABS_FOR_MARTS}

BuildMartsCalled == pc # "written"

\* C14: when one of the five required tabs is absent at the call of
\* build_marts, the call raises an error that names exactly the absent tabs,
\* and the spreadsheet is left as it was: no mart tab is created, cleared or
\* written.
C14_MissingTabIsFatal ==
    (BuildMartsCalled /\ RequiredTabs \ DOMAIN start_db # {}) =>
        /\ pc = "except"
        /\ run.error.kind = "missing_tabs"
        /\ {run.error.tabs[i] : i \in DOMAIN run.error.tabs}
               = RequiredTabs \ DOMAIN start_db
        /\ db = start_db

C14_TwoTabsMissingNoMartCreated ==
    /\ BuildMartsCalled
    /\ Cardinality(RequiredTabs \ DOMAIN start_db) >= 2
    /\ MartTabs \cap DOMAIN start_db = {}
    /\ MartTabs \cap DOMAIN db = {}

(***************************************************************************)
(* The audit log of a run.                                                 *)
(***************************************************************************)

RunLogged == pc = "done"

LogAtStart == TabOf(start_db, "etl_log")
LogNow == TabOf(db, "etl_log")

\* A step of the try block raised: build_fact_attendance_from_raw or
\* build_mart_attendance (every tab build_marts requires has been written)
StepRaised ==
    \/ fact_attendance # Unset /\ fact_attendance.raised
    \/ mart_attendance # Unset /\ mart_attendance.raised

\* C15: a run that reached its end has put exactly one record below the
\* records the log held at its start, after a header row only if the log was
\* empty; the record says "failed" when a step raised and "success" otherwise.
C15_OneRecordPerRun ==
    RunLogged =>
        /\ LogNow.header = ETL_LOG_HEADER
        /\ LogAtStart.header # <<>> => LogNow.header = LogAtStart.header
        /\ Len(LogNow.rows) = Len(LogAtStart.rows) + 1
        /\ SubSeq(LogNow.rows, 1, Len(LogAtStart.rows)) = LogAtStart.rows
        /\ LogNow.rows[Len(LogNow.rows)].status \in {"failed", "success"}
        /\ LogNow.rows[Len(LogNow.rows)].status = "failed" <=> StepRaised

C15_FailedRunLoggedBelowOldRecord ==
    /\ RunLogged
    /\ StepRaised
    /\ LogAtStart.rows # <<>>
    /\ LogNow.rows[Len(LogNow.rows)].status = "failed"

(***************************************************************************)
(* The tables after a run that a step ended.                               *)
(***************************************************************************)

DimTabs == {"dim_chorister", "dim_chorister_assignment", "dim_song"}
FactTabs == {"fact_attendance", "fact_song_time"}

RunFailed == pc \in {"except", "log", "done"} /\ StepRaised

\* The tabs written before the step that raised
TabsWritten ==
    IF fact_attendance.raised THEN DimTabs ELSE DimTabs \cup FactTabs

\* the tab is as it was when the run started: absent if it was absent
LeftAsBefore(t) ==
    /\ t \in DOMAIN db <=> t \in DOMAIN start_db
    /\ TabOf(db, t) = TabOf(start_db, t)

\* C16: after a step has raised, the tabs written before it hold the tables
\* this run built and every later tab is as it was when the run started; a
\* failure of build_fact_attendance_from_raw leaves the three dim tabs
\* overwritten and the fact and mart tabs untouched.
C16_FailureKeepsEarlierWrites ==
    RunFailed =>
        /\ \A t \in TabsWritten : TabOf(db, t) = Written(t)
        /\ TabOf(db, "dim_chorister").rows =
               build_dim_chorister_from_raw(values, clock).rows
        /\ \A t \in (DimTabs \cup FactTabs \cup MartTabs) \ TabsWritten :
               LeftAsBefore(t)

C16_DimsOverwrittenFactsLeft ==
    /\ RunFailed
    /\ fact_attendance.raised
    /\ TabOf(db, "dim_chorister") # TabOf(start_db, "dim_chorister")
    /\ TabOf(db, "dim_song") # TabOf(start_db, "dim_song")
    /\ "fact_attendance" \in DOMAIN start_db

(***************************************************************************)
(* The header policy of the song-time unpivot.                             *)
(***************************************************************************)

SongTimeCalled == pc = "fact_song_time"

\* The normalized dates of the header cells from E on that are dates
HeaderDates(header) ==
    {HeaderDate(header, idx) :
        idx \in DATE_COLUMNS_START_INDEX..(Len(header) - 1)} \ {<<>>}

\* C17: every rehearsal_date of fact_song_time is the YYYY-MM-DD form of the
\* header of a column at index 4 or more; a column whose header is not a date
\* gives no row.
C17_SongTimeDatesAreNormalized ==
    SongTimeCalled =>
        \A i \in DOMAIN fact_song_time :
            fact_song_time[i].rehearsal_date \in HeaderDates(values[1])

(***************************************************************************)
(* The voice part and the active flag a Tag gives.                         *)
(***************************************************************************)

MaxTagLen == 4

TagChars == {"e", "X", "A", " ", "-", "_", "\t"}

\* One chorister row, its Tag any text over TagChars
InitTag ==
    \E tag \in SeqsUpTo(TagChars, MaxTagLen) :
        InitBuild(<<IdentityHeader, <<tag, D160624, <<>>, Ann, <<"2">>>>>>)

SpecTag == InitTag /\ [][NextBuild]_vars

\* s without its leading run of space, '-' and '_'
RECURSIVE AfterSeparators(_)
AfterSeparators(s) ==
    IF s # <<>> /\ Head(s) \in {" ", "-", "_"} THEN AfterSeparators(Tail(s))
    ELSE s

\* The Tag cell of the data row s, as _get_safe reads it
TagOf(s) == _get_safe(DataRows(values)[s], ColumnIndex(values[1], Tag))

IsExTag(tag) == Len(tag) >= 2 /\ Lower(SubSeq(tag, 1, 2)) = <<"e", "x">>

\* C18: the row of an eligible chorister who has no override: a tag that
\* starts with "ex" in any case gives is_active FALSE and as voice_part the
\* tag without its first two characters and the run of space, '-' and '_'
\* after them, stripped of surrounding whitespace and lower-cased; any other
\* tag gives is_active TRUE and the tag lower-cased.
C18_VoicePartFromTag ==
    AfterAssignment =>
        \A i \in DOMAIN dim_chorister_assignment :
            LET got == dim_chorister_assignment[i]
                tag == TagOf(got.src)
            IN IF IsExTag(tag)
               THEN /\ got.is_active = FalseCell
                    /\ got.voice_part
                           = Lower(Strip(AfterSeparators(Drop(tag, 2))))
               ELSE /\ got.is_active = TrueCell
                    /\ got.voice_part = Lower(tag)

\* C18 as it was stated: nothing but the run of space, '-' and '_' is removed
\* after the first two characters.
C18_AsClaimed ==
    AfterAssignment =>
        \A i \in DOMAIN dim_chorister_assignment :
            LET got == dim_chorister_assignment[i]
                tag == TagOf(got.src)
            IN IF IsExTag(tag)
               THEN /\ got.is_active = FalseCell
                    /\ got.voice_part = Lower(AfterSeparators(Drop(tag, 2)))
               ELSE /\ got.is_active = TrueCell
                    /\ got.voice_part = Lower(tag)

C18_PastVoicePartBuilt ==
    /\ AfterAssignment
    /\ Len(dim_chorister_assignment) = 1
    /\ TagOf(1) = <<"e", "X", "-", "A">>
    /\ dim_chorister_assignment[1].is_active = FalseCell
    /\ dim_chorister_assignment[1].voice_part = <<"a">>

(***************************************************************************)
(* _normalize_name on a name, on its own result, and on another spelling   *)
(* of the name.                                                            *)
(***************************************************************************)

MaxNameLen == 4

NameChars == {"A", "a", "b", " ", "\t", "-"}

SwapCase(c) ==
    CASE c = "A" -> "a"
      [] c = "a" -> "A"
      [] c = "b" -> "B"
      [] OTHER -> c

\* s with the character c put after its first i characters
InsertAt(s, i, c) == SubSeq(s, 1, i) \o <<c>> \o SubSeq(s, i + 1, Len(s))

\* The spellings one change away from name: one letter in the other case,
\* one more whitespace character before the name, after it, or next to a
\* whitespace character of it
Respellings(name) ==
    {[name EXCEPT ![i] = SwapCase(name[i])] : i \in DOMAIN name}
        \cup {<<w>> \o name : w \in {" ", "\t"}}
        \cup {name \o <<w>> : w \in {" ", "\t"}}
        \cup {InsertAt(name, i, w) :
                 i \in {j \in DOMAIN name : name[j] \in {" ", "\t"}},
                 w \in {" ", "\t"}}

\* _normalize_name(full_name)
NormalizeName ==
    /\ pc = "name"
    /\ name_out' = <<_normalize_name(name_in[1])>>
    /\ pc' = "normalized"
    /\ UNCHANGED <<name_in, values, dim_chorister, chorister_id_by_key,
                   normalized_to_chorister_id, dim_chorister_assignment,
                   dim_song, song_ids_ordered, fact_attendance, fact_song_time,
                   mart_in, mart_attendance, mart_song_rehearsal,
                   mart_chorister_song, vp_in, vp_out, clock, db, start_db,
                   run, reader>>

\* _normalize_name of the key it returned
NormalizeAgain ==
    /\ pc = "normalized"
    /\ name_in' = name_in \o <<name_out[1]>>
    /\ name_out' = name_out \o <<_normalize_name(name_out[1])>>
    /\ pc' = "renormalized"
    /\ UNCHANGED <<values, dim_chorister, chorister_id_by_key,
                   normalized_to_chorister_id, dim_chorister_assignment,
                   dim_song, song_ids_ordered, fact_attendance, fact_song_time,
                   mart_in, mart_attendance, mart_song_rehearsal,
                   mart_chorister_song, vp_in, vp_out, clock, db, start_db,
                   run, reader>>

\* _normalize_name of another spelling of the name
NormalizeRespelled ==
    /\ pc = "renormalized"
    /\ \E other \in Respellings(name_in[1]) :
          /\ name_in' = name_in \o <<other>>
          /\ name_out' = name_out \o <<_normalize_name(other)>>
    /\ pc' = "respelled"
    /\ UNCHANGED <<values, dim_chorister, chorister_id_by_key,
                   normalized_to_chorister_id, dim_chorister_assignment,
                   dim_song, song_ids_ordered, fact_attendance, fact_song_time,
                   mart_in, mart_attendance, mart_song_rehearsal,
                   mart_chorister_song, vp_in, vp_out, clock, db, start_db,
                   run, reader>>

NextName ==
    \/ NormalizeName
    \/ NormalizeAgain
    \/ NormalizeRespelled

InitName ==
    \E name \in SeqsUpTo(NameChars, MaxNameLen) :
        /\ pc = "name"
        /\ name_in = <<name>>
        /\ name_out = <<>>
        /\ values = <<>>
        /\ clock = 1
        /\ db = Unset
        /\ start_db = Unset
        /\ run = Unset
        /\ reader = Unset
        /\ dim_chorister = Unset
        /\ chorister_id_by_key = Unset
        /\ normalized_to_chorister_id = Unset
        /\ dim_chorister_assignment = Unset
        /\ dim_song = Unset
        /\ song_ids_ordered = Unset
        /\ fact_attendance = Unset
        /\ fact_song_time = Unset
        /\ mart_in = Unset
        /\ mart_attendance = Unset
        /\ mart_song_rehearsal = Unset
        /\ mart_chorister_song = Unset
        /\ vp_in = Unset
        /\ vp_out = Unset

SpecName == InitName /\ [][NextName]_vars

\* C19: the key of a key is that key, and a spelling of the name that differs
\* in the case of a letter, in whitespace before or after the name, or in the
\* length of a run of whitespace has the same key as the name.
C19_NormalizeIsIdempotentAndInsensitive ==
    /\ pc \in {"renormalized", "respelled"} => name_out[2] = name_out[1]
    /\ pc = "respelled" => name_out[3] = name_out[1]

C19_LongerRunSameKey ==
    /\ pc = "respelled"
    /\ name_in[1] = <<"A", " ", "b">>
    /\ name_in[3] = <<"A", " ", "\t", "b">>
    /\ name_out = <<<<"a", "_", "b">>, <<"a", "_", "b">>, <<"a", "_", "b">>>>

(***************************************************************************)
(* Intervals that start on the same day.                                   *)
(***************************************************************************)

\* The intervals of vp_in in force on the date
InForce ==
    {i \in DOMAIN vp_in.assignments :
        Qualifies(vp_in.assignments[i], vp_in.chorister_id,
                  vp_in.rehearsal_date_iso)}

ValidFromNumber(i) ==
    DateNumber(_normalize_date_to_iso(vp_in.assignments[i].valid_from))

\* Those of them with the greatest valid_from
StartingLatest ==
    {i \in InForce : \A j \in InForce : ValidFromNumber(j) <= ValidFromNumber(i)}

\* C20: when several intervals of the chorister are in force on the date and
\* start on the same, latest day, _get_voice_part_for_date returns the
\* voice_part of the one that comes first in the assignment table.
C20_FirstOfTheLatestWins ==
    (pc = "voice_part_returned" /\ Cardinality(StartingLatest) >= 2) =>
        vp_out = Strip(vp_in.assignments[
                     CHOOSE i \in StartingLatest :
                         \A j \in StartingLatest : i <= j].voice_part)

C20_BassBeforeSopranoReturned ==
    /\ pc = "voice_part_returned"
    /\ vp_in.chorister_id = Ann
    /\ vp_in.rehearsal_date_iso = Iso200724
    /\ vp_in.assignments = <<BassInterval, SopranoInterval>>
    /\ StartingLatest = {1, 2}
    /\ vp_out = <<"b", "a", "s", "s">>

(***************************************************************************)
(* The chorister_id values of the tables built from one sheet.             *)
(***************************************************************************)

\* The chorister_id values of the rows of dim_chorister
DimChoristerIds == {dim_chorister[i].chorister_id : i \in DOMAIN dim_chorister}

\* C21: every chorister_id of a row of dim_chorister_assignment, and of a row
\* of fact_attendance, built with the lookups build_dim_chorister_from_raw
\* returned for the same sheet, is the chorister_id of a row of dim_chorister.
C21_ChoristerIdsAreInDimChorister ==
    /\ AfterAssignment =>
           \A i \in DOMAIN dim_chorister_assignment :
               dim_chorister_assignment[i].chorister_id \in DimChoristerIds
    /\ AttendanceReturned =>
           \A i \in DOMAIN fact_attendance.rows :
               fact_attendance.rows[i].chorister_id \in DimChoristerIds

C21_RowsOfTwoAnnsAndAnOverride ==
    /\ AttendanceReturned
    /\ values = <<IdentityHeader, AnnRow, AnnRow, MariaRow>>
    /\ Len(dim_chorister_assignment) = 4
    /\ Len(fact_attendance.rows) = 3
    /\ fact_attendance.rows[1].chorister_id = AnnJoined

(***************************************************************************)
(* The order of the steps of a run.                                        *)
(***************************************************************************)

\* The dim and fact tabs in the order main writes them
BuildOrder ==
    <<"dim_chorister", "dim_chorister_assignment", "dim_song",
      "fact_attendance", "fact_song_time">>

\* The table the builders give for the RAW sheet of this run
TableOfRun(t) ==
    CASE t = "dim_chorister" ->
             Table(DIM_CHORISTER_HEADER,
                   build_dim_chorister_from_raw(values, clock).rows)
      [] t = "dim_chorister_assignment" ->
             Table(DIM_CHORISTER_ASSIGNMENT_HEADER,
                   build_dim_chorister_assignment_from_raw(
                       values,
                       build_dim_chorister_from_raw(values, clock).chorister_id_by_key,
                       build_dim_chorister_from_raw(values, clock).normalized_to_chorister_id))
      [] t = "dim_song" ->
             Table(DIM_SONG_HEADER, build_dim_song_from_raw(values, clock).rows)
      [] t = "fact_attendance" ->
             Table(FACT_ATTENDANCE_HEADER,
                   build_fact_attendance_from_raw(
                       values,
                       build_dim_chorister_from_raw(values, clock).chorister_id_by_key,
                       clock).rows)
      [] t = "fact_song_time" ->
             Table(FACT_SONG_TIME_HEADER,
                   build_fact_song_time_from_raw(
                       values,
                       build_dim_song_from_raw(values, clock).song_ids_ordered,
                       clock))

\* The write of the k-th tab of BuildOrder is complete
WriteDone(k) ==
    /\ BuildOrder[k] \in DOMAIN db
    /\ db[BuildOrder[k]] = TableOfRun(BuildOrder[k])
    /\ BuildOrder[k] = "fact_attendance" =>
           ~build_fact_attendance_from_raw(
                values,
                build_dim_chorister_from_raw(values, clock).chorister_id_by_key,
                clock).raised

\* The step creates the tab, clears it or writes it
TabTouched(t) ==
    \/ (t \in DOMAIN db) # (t \in DOMAIN db')
    \/ TabOf(db, t) # TabOf(db', t)

\* The step reads the tables for the marts or touches a mart tab
MartStep ==
    \/ mart_in' # mart_in /\ mart_in' # Unset
    \/ \E t \in MartTabs : TabTouched(t)

\* C22: a step of main that reads the tables for the marts, or creates, clears
\* or writes a mart tab, is taken only when the five dim and fact tabs hold the
\* tables of this run (so never after one of their builds raised), and a step
\* that touches one of the five is taken only when the writes of those before
\* it in BuildOrder are complete.
C22_MartsAfterTheFiveTables ==
    [][/\ MartStep => \A k \in DOMAIN BuildOrder : WriteDone(k)
       /\ \A k \in DOMAIN BuildOrder :
              TabTouched(BuildOrder[k]) => \A j \in 1..(k - 1) : WriteDone(j)]_vars

C22_MartsReadAfterFactsWritten ==
    /\ pc = "table_cleared"
    /\ run.tab = "mart_attendance"
    /\ run.runs = 1
    /\ mart_in # Unset
    /\ \A k \in DOMAIN BuildOrder : WriteDone(k)
    /\ db["fact_attendance"].rows # <<>>
    /\ db["dim_song"].rows # <<>>
====
